---------------------------- MODULE Spec2Model ----------------------------
(***************************************************************************)
(* The kebo-whatsapp webhook                                               *)
(* (src/src/app/api/kapso/webhook/route.ts): getDateRangeForPeriod,        *)
(* getExpensesSummary, getExpensesByCategory and saveExpense over the      *)
(* expenses table, the POST handler that calls them for the tool results   *)
(* of generateText, and the template that draws a Summary                  *)
(* (src/src/lib/images/templates/daily-summary.tsx); with them             *)
(* getOrCreateUser, getConversationMessages, translatePeriodLabel, the     *)
(* singletons getDb and Logger.getInstance, and getDailySummary of the     *)
(* earlier food diary.                                                     *)
(*                                                                         *)
(* Instants are whole hours since 1970-01-01T00:00Z (a JavaScript time     *)
(* value divided by 3 600 000).  Stored amounts are decimal(12,2) values,  *)
(* kept as a whole number of cents; Number(entry.amount) turns them into   *)
(* IEEE-754 doubles, which are modelled bit-exactly (section DOUBLES).     *)
(***************************************************************************)
EXTENDS Integers, Sequences, FiniteSets, Bags, TLC

VARIABLES
    tz,        \* UTC offset (hours) of the zone the server process runs in
    now,       \* the wall clock: the instant `new Date()` returns
    expenses,  \* the expenses table: a bag of rows
    range,     \* last call and value of getDateRangeForPeriod
    call,      \* the last call: operation and arguments
    result,    \* the value that call returned
    users,     \* the users table: a set of rows
    post,      \* the POST request being handled
    calls,     \* getExpensesSummary calls running side by side
    image,     \* the image rendered last
    requests,    \* POST requests of SpecUsers, running side by side
    foodEntries, \* the food_entries table: a bag of rows
    dbInstance,  \* the module variable dbInstance of the database module
    instance,    \* the static field Logger.instance
    created      \* the instances constructed, and the values that getDb
                 \* and Logger.getInstance returned, so far in the process

vars == <<tz, now, expenses, range, call, result, users, post, calls, image,
          requests, foodEntries, dbInstance, instance, created>>

\* The variables that the expense functions and the serial POST handler
\* leave alone.
apart == <<requests, foodEntries, dbInstance, instance, created>>

---------------------------------------------------------------------------
(* BOUNDS                                                                  *)

\* Tool results in the steps of one generateText result.
MaxToolResults == 2

\* getExpensesSummary calls running side by side.
MaxCalls == 2

\* Largest number of rows in the food_entries table.
MaxFoodEntries == 2

\* Calls of getDb and Logger.getInstance in a process.
MaxGets == 5

\* Largest number of messages in a response of the Kapso messages API.
MaxMessages == 2

\* POST requests running side by side.
MaxRequests == 3

\* Largest number of items in the data of a batch payload.
MaxItems == 2

\* Largest number of rows in the expenses table.
MaxExpenses == 3

\* Largest number of rows in the table of SpecSum.
MaxSumRows == 3

\* Number of hours the clock may advance after the start.
MaxTicks == 2

\* Calendar years the reference dates are drawn from (2024 is a leap year).
FirstYear == 2023

LastYear == 2025

---------------------------------------------------------------------------
(* CALENDAR: the ECMAScript date algorithms behind Date.UTC, new Date(y,m,d)*)
(* and the getters, in hours.                                              *)

HoursPerDay == 24

\* The fixed offset of Colombia/Peru written into every Date.UTC call:
\* local midnight is 05:00 UTC.
ColombiaOffsetHours == 5

YearsOfGetters == (FirstYear - 1) .. (LastYear + 2)

\* ECMAScript DayFromYear(y): day number of January 1 of year y.
DayFromYear(y) ==
    365 * (y - 1970) + ((y - 1969) \div 4) - ((y - 1901) \div 100)
        + ((y - 1601) \div 400)

InLeapYear(y) == (y % 4 = 0) /\ ((y % 100 # 0) \/ (y % 400 = 0))

\* Days of the year before month m (0-based, 12 = the whole year).
DaysBeforeMonth(m, y) ==
    LET common == <<0, 31, 59, 90, 120, 151, 181, 212, 243, 273, 304, 334, 365>>
    IN  common[m + 1] + (IF m >= 2 /\ InLeapYear(y) THEN 1 ELSE 0)

\* ECMAScript MakeDay(year, month, date): month and date may lie outside
\* their calendar range and are carried into the year and the month.
MakeDay(year, month, date) ==
    LET ym == year + (month \div 12)
        mn == month % 12
    IN  DayFromYear(ym) + DaysBeforeMonth(mn, ym) + date - 1

\* Date.UTC(year, month, date, hours, 0, 0, 0) as a time value.
DateUTC(year, month, date, hours) ==
    MakeDay(year, month, date) * HoursPerDay + hours

\* LocalTime(t): the instant t read on the server's local clock.
LocalTime(t) == t + tz

\* new Date(year, month, date, hours): the fields are local time.
DateLocal(year, month, date, hours) ==
    DateUTC(year, month, date, hours) - tz

DayOf(t) == t \div HoursPerDay

YearFromDay(d) ==
    CHOOSE y \in YearsOfGetters : DayFromYear(y) <= d /\ d < DayFromYear(y + 1)

MonthFromDay(d) ==
    LET y == YearFromDay(d)
        n == d - DayFromYear(y)
    IN  CHOOSE m \in 0 .. 11 :
            DaysBeforeMonth(m, y) <= n /\ n < DaysBeforeMonth(m + 1, y)

DateFromDay(d) ==
    LET y == YearFromDay(d)
    IN  d - DayFromYear(y) - DaysBeforeMonth(MonthFromDay(d), y) + 1

\* ECMAScript WeekDay: 0 = Sunday; 1970-01-01 was a Thursday.
WeekDayOfDay(d) == (d + 4) % 7

\* The local getters of a Date object.
getFullYear(t) == YearFromDay(DayOf(LocalTime(t)))

getMonth(t) == MonthFromDay(DayOf(LocalTime(t)))

getDate(t) == DateFromDay(DayOf(LocalTime(t)))

getDay(t) == WeekDayOfDay(DayOf(LocalTime(t)))

---------------------------------------------------------------------------
(* DOUBLES: the IEEE-754 binary64 values that Number(entry.amount) and the  *)
(* `+` of the accumulation loops produce.  A non-negative double x below   *)
(* 4096 that is 0 or at least 1/256 is a whole multiple of 2^-60; it is    *)
(* kept as that multiple, written in three digits of base 2^24:            *)
(*     x = (d[1] * 2^48 + d[2] * 2^24 + d[3]) / 2^60.                      *)
(* Equal doubles have equal digits.                                        *)

Limb == 16777216

\* Bits of the significand of a binary64.
SignificandBits == 53

DZero == <<0, 0, 0>>

RECURSIVE BitLen(_)
BitLen(n) == IF n = 0 THEN 0 ELSE 1 + BitLen(n \div 2)

RECURSIVE Pow2(_)
Pow2(k) == IF k = 0 THEN 1 ELSE 2 * Pow2(k - 1)

\* Carries of a digit triple whose digits have grown beyond the base.
Carry(d) ==
    LET l == d[3] % Limb
        m == (d[2] + (d[3] \div Limb)) % Limb
        h == d[1] + ((d[2] + (d[3] \div Limb)) \div Limb)
    IN  <<h, m, l>>

\* The exact, unrounded sum of two digit triples.
ExactAdd(x, y) == Carry(<<x[1] + y[1], x[2] + y[2], x[3] + y[3]>>)

\* Round-to-nearest, ties-to-even, to 53 significant bits.  `sticky` tells
\* that the exact value lies strictly above the digits given.
RoundToDouble(d, sticky) ==
    LET drop   == 48 + BitLen(d[1]) - SignificandBits
        unit   == Pow2(drop)
        rem    == d[3] % unit
        half   == unit \div 2
        isOdd  == (d[3] \div unit) % 2 = 1
        up     == rem > half \/ (rem = half /\ (sticky \/ isOdd))
    IN  IF drop <= 0 THEN d
        ELSE Carry(<<d[1], d[2], d[3] - rem + (IF up THEN unit ELSE 0)>>)

\* x + y of two doubles, as JavaScript computes it.
DoubleAdd(x, y) == RoundToDouble(ExactAdd(x, y), FALSE)

\* Number(s) for the text s of a decimal(12,2) value of `cents` cents: the
\* double nearest to cents / 100, by long division of cents * 2^60 by 100.
NumberOfCents(cents) ==
    LET a  == cents * 4096
        q2 == a \div 100
        q1 == ((a % 100) * Limb) \div 100
        r1 == ((a % 100) * Limb) % 100
        q0 == (r1 * Limb) \div 100
        r0 == (r1 * Limb) % 100
    IN  RoundToDouble(<<q2, q1, q0>>, r0 # 0)

---------------------------------------------------------------------------
(* INPUTS                                                                  *)

\* Zones the server process may run in (Date getters and new Date(y,m,d)
\* are local to it): Bogota, UTC, Tokyo.
ServerZones == {-5, 0, 9}

Periods == {"day", "week", "month", "year"}

DaysInMonth(y, m) == DaysBeforeMonth(m, y) - DaysBeforeMonth(m - 1, y)

\* params.date: a well-formed YYYY-MM-DD string, as its three fields.
Dates ==
    { dt \in [y : FirstYear .. LastYear, m : 1 .. 12, d : 1 .. 31] :
        dt.d <= DaysInMonth(dt.y, dt.m) }

\* Clock readings at the start: around the turn of the year 2024/2025 in
\* UTC and in Bogota, and on a Saturday evening (2024-11-30) in Bogota.
InitNows ==
    { DateUTC(2024, 11, 31, 22), DateUTC(2025, 0, 1, 3),
      DateUTC(2024, 11, 1, 3) }

\* params.date left out by the caller.
NoDate == [y |-> 0, m |-> 0, d |-> 0]

NoRange == [period |-> "none"]

NoCall == [op |-> "none"]

NoResult == [periodLabel |-> "none"]

NoImage == [template |-> "none", bars |-> << >>]

null == "null"

\* Nothing constructed and nothing returned yet.
NoCreated == [db |-> << >>, logger |-> << >>, returned |-> << >>]

InitApart ==
    /\ requests = << >>
    /\ foodEntries = EmptyBag
    /\ dbInstance = null
    /\ instance = null
    /\ created = NoCreated

\* No request is being handled.
NoMessage ==
    [direction |-> "none", type |-> "none", text |-> FALSE, mediaUrl |-> FALSE,
     from |-> << >>]

NoPayload ==
    [batch |-> FALSE, data |-> << >>, message |-> NoMessage,
     phoneNumberId |-> FALSE]

NoPost ==
    [ pc |-> "idle", env |-> TRUE, payload |-> NoPayload, userText |-> FALSE,
      imageData |-> FALSE, sender |-> << >>, rest |-> << >>,
      userId |-> "none",
      before |-> 0, steps |-> << >>, text |-> "", i |-> 0, j |-> 0,
      stage |-> "none", log |-> << >>, error |-> "none", response |-> 0 ]

---------------------------------------------------------------------------
(* PERIOD WINDOWS                                                          *)

\* Faulty variants of case "day": the end computed from `date` instead of
\* `date + 1`, and the UTC-5 shift left out.
DayRangeSameDay(year, month, date) ==
    [ start |-> DateUTC(year, month, date, ColombiaOffsetHours),
      end   |-> DateUTC(year, month, date, ColombiaOffsetHours),
      label |-> "Today" ]

DayRangeUtcMidnight(year, month, date) ==
    [ start |-> DateUTC(year, month, date, 0),
      end   |-> DateUTC(year, month, date + 1, 0),
      label |-> "Today" ]

\* case "day" of getDateRangeForPeriod
DayRange(year, month, date) ==
    [ start |-> DateUTC(year, month, date, ColombiaOffsetHours),
      end   |-> DateUTC(year, month, date + 1, ColombiaOffsetHours),
      label |-> "Today" ]

\* Faulty variant of case "week": the week made to start on Monday.
WeekRangeMonday(year, month, date, day) ==
    LET startOfWeek == DateLocal(year, month, date - day + 1, 0)
    IN  [ start |-> DateUTC(getFullYear(startOfWeek), getMonth(startOfWeek),
                            getDate(startOfWeek), ColombiaOffsetHours),
          end   |-> DateUTC(getFullYear(startOfWeek), getMonth(startOfWeek),
                            getDate(startOfWeek) + 7, ColombiaOffsetHours),
          label |-> "This Week" ]

\* case "week": startOfWeek is a local Date, read back with local getters
WeekRange(year, month, date, day) ==
    LET startOfWeek == DateLocal(year, month, date - day, 0)
    IN  [ start |-> DateUTC(getFullYear(startOfWeek), getMonth(startOfWeek),
                            getDate(startOfWeek), ColombiaOffsetHours),
          end   |-> DateUTC(getFullYear(startOfWeek), getMonth(startOfWeek),
                            getDate(startOfWeek) + 7, ColombiaOffsetHours),
          label |-> "This Week" ]

\* Faulty variant of case "month": every month taken to have 31 days.
MonthRangeFixedLength(year, month) ==
    [ start |-> DateUTC(year, month, 1, ColombiaOffsetHours),
      end   |-> DateUTC(year, month, 32, ColombiaOffsetHours),
      label |-> "This Month" ]

\* case "month"
MonthRange(year, month) ==
    [ start |-> DateUTC(year, month, 1, ColombiaOffsetHours),
      end   |-> DateUTC(year, month + 1, 1, ColombiaOffsetHours),
      label |-> "This Month" ]

\* Faulty variant of case "year": the end at 00:00 of December 31.
YearRangeToDecember31(year) ==
    [ start |-> DateUTC(year, 0, 1, ColombiaOffsetHours),
      end   |-> DateUTC(year + 1, 0, 0, ColombiaOffsetHours),
      label |-> "This Year" ]

\* case "year"
YearRange(year) ==
    [ start |-> DateUTC(year, 0, 1, ColombiaOffsetHours),
      end   |-> DateUTC(year + 1, 0, 1, ColombiaOffsetHours),
      label |-> "This Year" ]

getDateRangeForPeriod(period, referenceDate) ==
    LET year  == getFullYear(referenceDate)
        month == getMonth(referenceDate)
        date  == getDate(referenceDate)
        day   == getDay(referenceDate)
    IN  CASE period = "day"   -> DayRange(year, month, date)
          [] period = "week"  -> WeekRange(year, month, date, day)
          [] period = "month" -> MonthRange(year, month)
          [] period = "year"  -> YearRange(year)

\* new Date(params.date + "T12:00:00"): a date-time string without a zone
\* is local time.
ParseLocalNoon(dt) == DateLocal(dt.y, dt.m - 1, dt.d, 12)

\* A faulty variant of getColombiaTime: new Date(), the clock of the server
\* without the conversion to Bogota time.
getColombiaTimeServerClock(t) == t

\* getColombiaTime(): the Bogota wall clock of `now` (UTC-5 all year),
\* printed by toLocaleString and parsed again as a local date-time.
getColombiaTime(t) ==
    LET wall == t - ColombiaOffsetHours
    IN  DateLocal(YearFromDay(DayOf(wall)), MonthFromDay(DayOf(wall)),
                  DateFromDay(DayOf(wall)), wall % HoursPerDay)

\* Lines 442-445 of getExpensesSummary: params.date is optional.
ReferenceDate(params, t) ==
    IF params.date # NoDate THEN ParseLocalNoon(params.date)
                              ELSE getColombiaTime(t)

---------------------------------------------------------------------------
(* SpecPeriod: getDateRangeForPeriod applied to every reference date       *)

InitPeriod ==
    /\ tz \in ServerZones
    /\ now \in InitNows
    /\ expenses = EmptyBag
    /\ range = NoRange
    /\ call = NoCall
    /\ result = NoResult
    /\ users = {}
    /\ post = NoPost
    /\ calls = << >>
    /\ image = NoImage
    /\ InitApart

Tick ==
    /\ \E base \in InitNows : base <= now /\ now < base + MaxTicks
    /\ now' = now + 1
    /\ UNCHANGED <<apart, tz, expenses, range, call, result, users, post, calls, image>>

\* One application of getDateRangeForPeriod per behaviour, to the reference
\* date getExpensesSummary derives from params.date ...
RangeOfDate(period, dt) ==
    /\ range = NoRange
    /\ range' = [ period |-> period, date |-> dt, at |-> 0 ]
                    @@ getDateRangeForPeriod(period,
                           ReferenceDate([date |-> dt], now))
    /\ UNCHANGED <<apart, tz, now, expenses, call, result, users, post, calls, image>>

\* ... or from the clock.
RangeOfNow(period) ==
    /\ range = NoRange
    /\ range' = [ period |-> period, date |-> NoDate, at |-> now ]
                    @@ getDateRangeForPeriod(period,
                           ReferenceDate([date |-> NoDate], now))
    /\ UNCHANGED <<apart, tz, now, expenses, call, result, users, post, calls, image>>

NextPeriod ==
    \/ Tick
    \/ \E period \in Periods, dt \in Dates : RangeOfDate(period, dt)
    \/ \E period \in Periods : RangeOfNow(period)

SpecPeriod == InitPeriod /\ [][NextPeriod]_vars

---------------------------------------------------------------------------
(* THE EXPENSES TABLE AND THE REDUCTION                                    *)

Users == {"u1", "u2"}

\* Two of the nine values of the expense_category enum.
Categories == {"food_dining", "transportation"}

\* params.category left out by the caller.
NoCategory == "none"

\* 00:00 in Colombia of Sunday 2024-12-01: the start of a day, of a week and
\* of a month.
T0 == DateUTC(2024, 11, 1, ColombiaOffsetHours)

\* Values of params.spentAt: the last hour of November, the first hour of
\* December 1 and the first hour of December 2.
SpentAts == {T0 - 1, T0, T0 + 24}

\* saveExpense: the row inserted.  params.amount has at most two decimals,
\* so amount.toString() stored as decimal(12,2) keeps its value; it is held
\* in cents.
saveExpense(userId, params) ==
    [ userId   |-> userId,
      amount   |-> params.amount,
      category |-> params.category,
      spentAt  |-> params.spentAt ]

\* Faulty variants of the where clause: `lte` in place of `lt`, and the
\* userId condition left out.
WhereSummaryInclusiveEnd(row, userId, start, end, category) ==
    /\ row.userId = userId
    /\ row.spentAt >= start
    /\ row.spentAt <= end
    /\ (category # NoCategory => row.category = category)

WhereSummaryAnyUser(row, userId, start, end, category) ==
    /\ row.spentAt >= start
    /\ row.spentAt < end
    /\ (category # NoCategory => row.category = category)

\* The where clause of getExpensesSummary: and(eq userId, gte start, lt end)
\* and, with params.category, eq category.
WhereSummary(row, userId, start, end, category) ==
    /\ row.userId = userId
    /\ row.spentAt >= start
    /\ row.spentAt < end
    /\ (category # NoCategory => row.category = category)

\* The where clause of getExpensesByCategory.
WhereByCategory(row, userId, startUTC, endUTC) ==
    /\ row.userId = userId
    /\ row.spentAt >= startUTC
    /\ row.spentAt < endUTC

\* The rows of a bag in every order.
Orders(bag) ==
    LET n == BagCardinality(bag)
    IN  { s \in [1 .. n -> DOMAIN bag] :
            \A r \in DOMAIN bag : Cardinality({i \in 1 .. n : s[i] = r}) = bag[r] }

\* db.query.expenses.findMany({ where }) without orderBy: the rows that
\* satisfy the condition, in an order SQL leaves to the database.
findMany(matching) ==
    Orders([r \in {x \in DOMAIN expenses : matching[x]} |-> expenses[r]])

\* A faulty variant of the loop body: the Map is not looked up, every row
\* starts an entry of its own.
AccumulateEntryNoLookup(acc, entry) ==
    LET amount == NumberOfCents(entry.amount)
    IN  [ totalAmount |-> DoubleAdd(acc.totalAmount, amount),
          byCategory  |->
              Append(acc.byCategory,
                     [ category |-> entry.category,
                       total    |-> DoubleAdd(DZero, amount),
                       count    |-> 1 ]) ]

\* One pass of the loop `for (const entry of entries)`: acc.byCategory is the
\* Map, kept as the list of its entries in insertion order.
AccumulateEntry(acc, entry) ==
    LET amount == NumberOfCents(entry.amount)
        found  == {i \in DOMAIN acc.byCategory :
                      acc.byCategory[i].category = entry.category}
        existing == IF found = {} THEN [total |-> DZero, count |-> 0]
                    ELSE LET i == CHOOSE j \in found : TRUE
                         IN  [total |-> acc.byCategory[i].total,
                              count |-> acc.byCategory[i].count]
        updated == [ category |-> entry.category,
                     total    |-> DoubleAdd(existing.total, amount),
                     count    |-> existing.count + 1 ]
    IN  [ totalAmount |-> DoubleAdd(acc.totalAmount, amount),
          byCategory  |->
              IF found = {} THEN Append(acc.byCategory, updated)
              ELSE [i \in DOMAIN acc.byCategory |->
                      IF i \in found THEN updated ELSE acc.byCategory[i]] ]

RECURSIVE Accumulate(_, _)
Accumulate(acc, entries) ==
    IF entries = << >> THEN acc
    ELSE Accumulate(AccumulateEntry(acc, Head(entries)), Tail(entries))

\* A faulty variant of the reduction: totalAmount and the Map live at module
\* level, so a call goes on from what the last call to return left in them.
ReduceShared(entries) ==
    LET returned == {c \in DOMAIN calls : calls[c].pc = "returned"}
    IN  IF returned = {}
        THEN Accumulate([totalAmount |-> DZero, byCategory |-> << >>], entries)
        ELSE LET last == calls[CHOOSE c \in returned : TRUE].result
             IN  Accumulate([ totalAmount |-> last.totalAmount,
                              byCategory  |-> last.byCategory ], entries)

\* Lines 467-492 and 534-559: totals and grouping by category.
Reduce(entries) ==
    Accumulate([totalAmount |-> DZero, byCategory |-> << >>], entries)

\* The Summary getExpensesSummary returns for the rows `entries`.
getExpensesSummary(rng, entries) ==
    [ periodLabel |-> rng.label,
      startDate   |-> rng.start,
      endDate     |-> rng.end,
      totalAmount |-> Reduce(entries).totalAmount,
      entryCount  |-> Len(entries),
      byCategory  |-> Reduce(entries).byCategory ]

\* A faulty variant of the bounds: the query ends at the local midnight that
\* starts endDate, which leaves the records of endDate out.
CustomRangeEndDateExcluded(params) ==
    [ startUTC |-> DateUTC(params.startDate.y, params.startDate.m - 1,
                           params.startDate.d, ColombiaOffsetHours),
      endUTC   |-> DateUTC(params.endDate.y, params.endDate.m - 1,
                           params.endDate.d, ColombiaOffsetHours) ]

\* Lines 514-524 of getExpensesByCategory: the bounds of the query.
CustomRange(params) ==
    [ startUTC |-> DateUTC(params.startDate.y, params.startDate.m - 1,
                           params.startDate.d, ColombiaOffsetHours),
      endUTC   |-> DateUTC(params.endDate.y, params.endDate.m - 1,
                           params.endDate.d + 1, ColombiaOffsetHours) ]

\* A faulty variant: the date-only string read as midnight in Colombia.
ParseDateOnlyInColombia(dt) == DateUTC(dt.y, dt.m - 1, dt.d, ColombiaOffsetHours)

\* new Date("YYYY-MM-DD"): a date-only string is UTC midnight.
ParseDateOnly(dt) == DateUTC(dt.y, dt.m - 1, dt.d, 0)

\* The Summary getExpensesByCategory returns for the rows `entries`.
getExpensesByCategory(params, entries) ==
    [ periodLabel |-> "Custom Range",
      startDate   |-> ParseDateOnly(params.startDate),
      endDate     |-> ParseDateOnly(params.endDate),
      totalAmount |-> Reduce(entries).totalAmount,
      entryCount  |-> Len(entries),
      byCategory  |-> Reduce(entries).byCategory ]

---------------------------------------------------------------------------
(* ACTIONS                                                                 *)

\* A Summary is built for one request and never kept: once the next expense
\* is saved, no Summary is at hand.
SaveExpense(userId, params) ==
    /\ expenses' = expenses (+) SetToBag({saveExpense(userId, params)})
    /\ call' = NoCall
    /\ result' = NoResult
    /\ UNCHANGED <<apart, tz, now, range>>

\* The request that asked for the Summary ends; the Summary is dropped.
EndRequest ==
    /\ call # NoCall
    /\ call' = NoCall
    /\ result' = NoResult
    /\ UNCHANGED <<apart, tz, now, expenses, range>>

\* Lines 442-460: the bounds that getExpensesSummary hands to gte and lt.
SummaryWhere(params, t) ==
    LET rng == getDateRangeForPeriod(params.period, ReferenceDate(params, t))
    IN  [start |-> rng.start, end |-> rng.end]

\* A faulty variant of getExpensesSummary: the rows are read with
\* `delete ... returning`, which takes them out of the table.
GetExpensesSummaryConsuming(userId, params) ==
    LET referenceDate == ReferenceDate(params, now)
        rng == getDateRangeForPeriod(params.period, referenceDate)
        matching == [row \in DOMAIN expenses |->
                        WhereSummary(row, userId, rng.start, rng.end,
                                     params.category)]
    IN  \E entries \in findMany(matching) :
            /\ call' = [ op |-> "getExpensesSummary", userId |-> userId,
                         params |-> params,
                         at |-> IF params.date = NoDate THEN now ELSE 0,
                         where |-> [start |-> rng.start, end |-> rng.end],
                         reads |-> 1, threw |-> "none" ]
            /\ result' = getExpensesSummary(rng, entries)
            /\ expenses' = [r \in {x \in DOMAIN expenses : ~matching[x]}
                               |-> expenses[r]]
            /\ UNCHANGED <<apart, tz, now, range>>

GetExpensesSummary(userId, params) ==
    LET referenceDate == ReferenceDate(params, now)
        rng == getDateRangeForPeriod(params.period, referenceDate)
        matching == [row \in DOMAIN expenses |->
                        WhereSummary(row, userId, rng.start, rng.end,
                                     params.category)]
    IN  \E entries \in findMany(matching) :
            /\ call' = [ op |-> "getExpensesSummary", userId |-> userId,
                         params |-> params,
                         at |-> IF params.date = NoDate THEN now ELSE 0,
                         where |-> [start |-> rng.start, end |-> rng.end],
                         reads |-> 1, threw |-> "none" ]
            /\ result' = getExpensesSummary(rng, entries)
            /\ UNCHANGED <<apart, tz, now, expenses, range>>

\* A faulty variant of the failing call: the query is issued a second time
\* before the error is thrown.
GetExpensesSummaryRetries(userId, params, e) ==
    /\ call' = [ op |-> "getExpensesSummary", userId |-> userId,
                 params |-> params,
                 at |-> IF params.date = NoDate THEN now ELSE 0,
                 where |-> SummaryWhere(params, now),
                 reads |-> 2, threw |-> e ]
    /\ result' = NoResult
    /\ UNCHANGED <<apart, tz, now, expenses, range>>

\* The findMany of getExpensesSummary rejects with the error e: the function
\* has no try/catch, so its promise rejects with e and no Summary is built.
GetExpensesSummaryFails(userId, params, e) ==
    /\ call' = [ op |-> "getExpensesSummary", userId |-> userId,
                 params |-> params,
                 at |-> IF params.date = NoDate THEN now ELSE 0,
                 where |-> SummaryWhere(params, now),
                 reads |-> 1, threw |-> e ]
    /\ result' = NoResult
    /\ UNCHANGED <<apart, tz, now, expenses, range>>

GetExpensesByCategory(userId, params) ==
    LET bounds == CustomRange(params)
        matching == [row \in DOMAIN expenses |->
                        WhereByCategory(row, userId, bounds.startUTC,
                                        bounds.endUTC)]
    IN  \E entries \in findMany(matching) :
            /\ call' = [ op |-> "getExpensesByCategory", userId |-> userId,
                         params |-> params, at |-> 0,
                         where |-> [ start |-> bounds.startUTC,
                                     end   |-> bounds.endUTC ],
                         reads |-> 1, threw |-> "none" ]
            /\ result' = getExpensesByCategory(params, entries)
            /\ UNCHANGED <<apart, tz, now, expenses, range>>

\* The findMany of getExpensesByCategory rejects with the error e.
GetExpensesByCategoryFails(userId, params, e) ==
    /\ call' = [ op |-> "getExpensesByCategory", userId |-> userId,
                 params |-> params, at |-> 0,
                 where |-> [ start |-> CustomRange(params).startUTC,
                             end   |-> CustomRange(params).endUTC ],
                 reads |-> 1, threw |-> e ]
    /\ result' = NoResult
    /\ UNCHANGED <<apart, tz, now, expenses, range>>

---------------------------------------------------------------------------
(* Spec: the table filled by saveExpense and read by the two aggregators   *)

\* An amount of 25.00, in cents.
Amounts == {2500}

SaveParams == [amount : Amounts, category : Categories, spentAt : SpentAts]

Dec1 == [y |-> 2024, m |-> 12, d |-> 1]

Nov30 == [y |-> 2024, m |-> 11, d |-> 30]

SummaryParams ==
    [period : Periods, date : {Dec1, NoDate}, category : Categories \cup {NoCategory}]

ByCategoryParams == [startDate : {Nov30, Dec1}, endDate : {Nov30, Dec1}]

Init ==
    /\ tz = 0
    /\ now = DateUTC(2024, 11, 1, 3)
    /\ expenses = EmptyBag
    /\ range = NoRange
    /\ call = NoCall
    /\ result = NoResult
    /\ users = {}
    /\ post = NoPost
    /\ calls = << >>
    /\ image = NoImage
    /\ InitApart

\* Requests are served one after the other, and the table changes between
\* requests.  The clock stands at 22:00 of Saturday 2024-11-30 in Colombia,
\* which is what a call without params.date takes as its reference date; the
\* server runs in UTC.  SpecPeriod covers the other clocks and zones.
Next ==
    \/ \E userId \in Users, params \in SaveParams :
          /\ call = NoCall
          /\ BagCardinality(expenses) < MaxExpenses
          /\ SaveExpense(userId, params)
          /\ UNCHANGED <<users, post, calls, image>>
    \/ \E userId \in Users, params \in SummaryParams :
          /\ call = NoCall
          /\ GetExpensesSummary(userId, params)
          /\ UNCHANGED <<users, post, calls, image>>
    \/ \E userId \in Users, params \in ByCategoryParams :
          /\ call = NoCall
          /\ GetExpensesByCategory(userId, params)
          /\ UNCHANGED <<users, post, calls, image>>
    \/ EndRequest /\ UNCHANGED <<users, post, calls, image>>

Spec == Init /\ [][Next]_vars

---------------------------------------------------------------------------
(* SpecSum: one user's amounts of 0.10, 0.20 and 0.30 summed for one day   *)

SumAmounts == {10, 20, 30}

SumSaveParams ==
    [amount : SumAmounts, category : Categories, spentAt : {T0, T0 + 24}]

SumSummaryParams == [period : {"day"}, date : {Dec1}, category : {NoCategory}]

SumByCategoryParams == [startDate : {Dec1}, endDate : {Dec1}]

NextSum ==
    \/ \E params \in SumSaveParams :
          /\ BagCardinality(expenses) < MaxSumRows
          /\ SaveExpense("u1", params)
          /\ UNCHANGED <<users, post, calls, image>>
    \/ \E params \in SumSummaryParams :
          /\ GetExpensesSummary("u1", params)
          /\ UNCHANGED <<users, post, calls, image>>
    \/ \E params \in SumByCategoryParams :
          /\ GetExpensesByCategory("u1", params)
          /\ UNCHANGED <<users, post, calls, image>>

SpecSum == Init /\ [][NextSum]_vars

---------------------------------------------------------------------------
(* SpecRange: getExpensesByCategory over ranges that end on the last day  *)
(* of a month and of a year                                                *)

Dec31 == [y |-> 2024, m |-> 12, d |-> 31]

\* 00:00 in Colombia of 2025-01-01.
T1 == DateUTC(2025, 0, 1, ColombiaOffsetHours)

\* Values of params.spentAt: the last hour of November 30, the first hour
\* of December 1, the first and the last hour of December 31 and the first
\* hour of January 1.
RangeSpentAts == {T0 - 1, T0, T1 - 24, T1 - 1, T1}

RangeSaveParams ==
    [amount : Amounts, category : {"food_dining"}, spentAt : RangeSpentAts]

RangeParams ==
    [startDate : {Nov30, Dec1, Dec31}, endDate : {Nov30, Dec1, Dec31}]

NextRange ==
    \/ \E userId \in Users, params \in RangeSaveParams :
          /\ call = NoCall
          /\ BagCardinality(expenses) < MaxExpenses
          /\ SaveExpense(userId, params)
          /\ UNCHANGED <<users, post, calls, image>>
    \/ \E userId \in Users, params \in RangeParams :
          /\ call = NoCall
          /\ GetExpensesByCategory(userId, params)
          /\ UNCHANGED <<users, post, calls, image>>
    \/ EndRequest /\ UNCHANGED <<users, post, calls, image>>

SpecRange == Init /\ [][NextRange]_vars

---------------------------------------------------------------------------
(* THE IMAGE TEMPLATES                                                     *)

\* x < y for two doubles that are not negative.
DoubleLess(x, y) ==
    \/ x[1] < y[1]
    \/ x[1] = y[1] /\ x[2] < y[2]
    \/ x[1] = y[1] /\ x[2] = y[2] /\ x[3] < y[3]

\* One entry put into a list sorted with (a, b) => b.total - a.total:
\* Array.prototype.sort is stable, so the entry goes behind the entries whose
\* total is not less than its own.
RECURSIVE InsertByTotal(_, _)
InsertByTotal(sorted, e) ==
    IF sorted = << >> THEN <<e>>
    ELSE IF DoubleLess(Head(sorted).total, e.total) THEN <<e>> \o sorted
    ELSE <<Head(sorted)>> \o InsertByTotal(Tail(sorted), e)

RECURSIVE SortByTotal(_)
SortByTotal(list) ==
    IF list = << >> THEN << >>
    ELSE InsertByTotal(SortByTotal(SubSeq(list, 1, Len(list) - 1)),
                       list[Len(list)])

\* sortedCategories.slice(0, 5): the bars of the image.
MaxBars == 5

\* The period labels of the two locales.
translations ==
    [ en |-> [ today |-> "Today", thisWeek |-> "This Week",
               thisMonth |-> "This Month", thisYear |-> "This Year",
               customRange |-> "Custom Range" ],
      es |-> [ today |-> "Hoy", thisWeek |-> "Esta Semana",
               thisMonth |-> "Este Mes", thisYear |-> "Este Año",
               customRange |-> "Rango Personalizado" ] ]

SupportedLocales == {"en", "es"}

getTranslations(locale) == translations[locale]

undefined == "undefined"

\* What a property read finds on an object literal under a name that is
\* none of its own keys: the members of Object.prototype, each standing
\* here under the name of the function or object it is.
ObjectPrototype ==
    [ constructor |-> "[Function: Object]",
      toString |-> "[Function: toString]",
      valueOf |-> "[Function: valueOf]",
      hasOwnProperty |-> "[Function: hasOwnProperty]" ]

\* object[key] of JavaScript: the own property, else the inherited one,
\* else undefined.
Get(object, key) ==
    IF key \in DOMAIN object THEN object[key]
    ELSE IF key \in DOMAIN ObjectPrototype THEN ObjectPrototype[key]
    ELSE undefined

\* undefined and the empty string are falsy; every other value here is
\* truthy.
Truthy(value) == value \notin {undefined, ""}

periodMap(t) ==
    [ label \in {"Today", "This Week", "This Month", "This Year",
                 "Custom Range"} |->
        CASE label = "Today"        -> t.today
          [] label = "This Week"    -> t.thisWeek
          [] label = "This Month"   -> t.thisMonth
          [] label = "This Year"    -> t.thisYear
          [] label = "Custom Range" -> t.customRange ]

\* periodMap[periodLabel] || periodLabel
translatePeriodLabel(periodLabel, locale) ==
    LET found == Get(periodMap(getTranslations(locale)), periodLabel)
    IN  IF Truthy(found) THEN found ELSE periodLabel

\* data.language || "en"
Language(data) ==
    IF "language" \in DOMAIN data /\ Truthy(data.language)
    THEN data.language ELSE "en"

\* A faulty variant of the template: data.byCategory.sort(...) sorts the
\* array of the Summary itself.
ExpensesSummaryTemplateInPlace(data) ==
    LET sortedCategories == SortByTotal(data.byCategory)
    IN  [ byCategory |-> sortedCategories,
          image |-> [ template |-> "expenses-summary",
                      periodLabel |-> translatePeriodLabel(data.periodLabel,
                                                           Language(data)),
                      bars |-> SubSeq(sortedCategories, 1,
                                 IF Len(sortedCategories) < MaxBars
                                 THEN Len(sortedCategories) ELSE MaxBars) ] ]

\* ExpensesSummaryTemplate: the image, and data.byCategory as the template
\* leaves it.  [...data.byCategory] is a copy, and the copy is sorted.
ExpensesSummaryTemplate(data) ==
    LET sortedCategories == SortByTotal(data.byCategory)
    IN  [ byCategory |-> data.byCategory,
          image |-> [ template |-> "expenses-summary",
                      periodLabel |-> translatePeriodLabel(data.periodLabel,
                                                           Language(data)),
                      bars |-> SubSeq(sortedCategories, 1,
                                 IF Len(sortedCategories) < MaxBars
                                 THEN Len(sortedCategories) ELSE MaxBars) ] ]

\* renderExpensesSummary(summaryData), where summaryData.byCategory is the
\* array summary.byCategory (lines 962-973).
RenderExpensesSummary ==
    LET out == ExpensesSummaryTemplate(result)
    IN  /\ result' = [result EXCEPT !.byCategory = out.byCategory]
        /\ image' = out.image

---------------------------------------------------------------------------
(* THE POST HANDLER                                                        *)

SeqsUpTo(S, n) == UNION {[1 .. k -> S] : k \in 0 .. n}

\* message.from as a list of characters, and message.from.replace(/\D/g, "").
Froms == { <<"+", "5", "7", " ", "3">>, <<"5", "1", "9">> }

IsDigit(c) == c \in {"0", "1", "2", "3", "4", "5", "6", "7", "8", "9"}

Digits(from) == SelectSeq(from, IsDigit)

\* What lines 653-731 look at in a webhook message: its direction and type,
\* whether it carries a text (text.body, or image.caption for an image),
\* whether a Kapso media URL is there, and the sender.
Messages ==
    [ direction : {"inbound", "outbound"},
      type      : {"text", "image", "audio", "sticker"},
      text      : BOOLEAN,
      mediaUrl  : BOOLEAN,
      from      : Froms ]

TextFrom(from) ==
    [direction |-> "inbound", type |-> "text", text |-> TRUE,
     mediaUrl |-> FALSE, from |-> from]

\* The items of a batch payload.
Items ==
    {[message |-> TextFrom(from), phoneNumberId |-> TRUE] : from \in Froms}
        \cup {[message |-> [TextFrom(from) EXCEPT !.direction = "outbound"],
                phoneNumberId |-> TRUE] : from \in Froms}

\* KapsoWebhookPayload: the legacy format with message and phone_number_id
\* at the top, the batch format with the items in data, and the mixed forms
\* that line 639 tells apart.
Payloads ==
    [ batch : {FALSE}, data : {<< >>},
      message : Messages \cup {NoMessage}, phoneNumberId : BOOLEAN ]
        \cup [ batch : {TRUE}, data : SeqsUpTo(Items, MaxItems),
               message : {NoMessage}, phoneNumberId : {FALSE} ]
        \cup [ batch : BOOLEAN, data : SeqsUpTo(Items, 1),
               message : {TextFrom(from) : from \in Froms},
               phoneNumberId : {TRUE} ]

\* The outputs of the three tools.
LogParams == [amount |-> 2500, category |-> "food_dining", spentAt |-> T0]

PostSummaryParams == [period |-> "month", date |-> Dec1, category |-> NoCategory]

PostByCategoryParams == [startDate |-> Dec1, endDate |-> Dec1]

ToolResults ==
    { [toolName |-> "logExpense", output |-> LogParams],
      [toolName |-> "getExpensesSummary", output |-> PostSummaryParams],
      [toolName |-> "getExpensesByCategory", output |-> PostByCategoryParams] }

RECURSIVE CountResults(_, _)
CountResults(steps, names) ==
    IF steps = << >> THEN 0
    ELSE Len(SelectSeq(Head(steps), LAMBDA r : r.toolName \in names))
            + CountResults(Tail(steps), names)

\* result.steps of generateText: steps without tool results add no pass to
\* the loops of lines 908-909 and are left out.
StepLists ==
    { steps \in SeqsUpTo(SeqsUpTo(ToolResults, MaxToolResults) \ {<< >>},
                         MaxToolResults) :
        CountResults(steps, {r.toolName : r \in ToolResults}) <= MaxToolResults }

\* result.text: empty, blank and a reply.
Texts == {"", " ", "Listo!"}

trim(text) == IF text \in {"", " "} THEN "" ELSE text

\* Errors a storage call rejects with.
StorageErrors == {"connection refused", "statement timeout"}

\* A faulty variant of the loops: `break` after the first tool result of a
\* step.
AdvanceToNextStep(steps, i, j) ==
    IF i < Len(steps) THEN <<i + 1, 1>> ELSE <<0, 0>>

\* The tool result the loops of lines 908-909 take after steps[i][j];
\* <<0, 0>> when there is none.
Advance(steps, i, j) ==
    IF j < Len(steps[i]) THEN <<i, j + 1>>
    ELSE IF i < Len(steps) THEN <<i + 1, 1>> ELSE <<0, 0>>

Event(ev) == [ev |-> ev, i |-> post.i, j |-> post.j]

\* The handler after the tool results up to steps[i][j] are done: at the
\* next tool result, at the text reply of lines 1034-1042, or returning 200
\* at line 1066.
AfterToolResult(p, position) ==
    IF position # <<0, 0>>
    THEN [p EXCEPT !.pc = "tools", !.stage = "call",
                   !.i = position[1], !.j = position[2]]
    ELSE IF trim(p.text) # ""
         THEN [p EXCEPT !.pc = "sendText", !.stage = "none", !.i = 0, !.j = 0]
         ELSE [p EXCEPT !.pc = "done", !.stage = "none", !.i = 0, !.j = 0,
                        !.response = 200]

\* Line 632: request.json() resolves with the payload.  env tells whether
\* KAPSO_API_KEY is set in the process.
Receive(payload, env) ==
    /\ post.pc \in {"idle", "done", "rejected"}
    /\ post' = [NoPost EXCEPT !.pc = "received", !.env = env,
                              !.payload = payload]
    /\ call' = NoCall
    /\ result' = NoResult
    /\ image' = NoImage
    /\ UNCHANGED <<apart, tz, now, expenses, range, users, calls>>

\* A faulty variant of lines 639-650: the last item of the batch.
LastItem(payload) ==
    IF payload.batch /\ Len(payload.data) > 0
    THEN payload.data[Len(payload.data)]
    ELSE [message |-> payload.message, phoneNumberId |-> payload.phoneNumberId]

\* Lines 639-650: the item the handler works on.
FirstItem(payload) ==
    IF payload.batch /\ Len(payload.data) > 0
    THEN payload.data[1]
    ELSE [message |-> payload.message, phoneNumberId |-> payload.phoneNumberId]

\* The senders of the items of a batch that line 641 does not take.
OtherSenders(payload) ==
    IF payload.batch /\ Len(payload.data) > 0
    THEN [k \in 1 .. Len(payload.data) - 1 |->
             Digits(payload.data[k + 1].message.from)]
    ELSE << >>

\* Lines 671-726: userTextMessage and imageData.  downloaded and transcribed
\* tell whether the download of the media and the transcription of the
\* audio give something: downloadMediaFromUrl, downloadAudioFromUrl and
\* transcribeAudio return null on every failure.
Content(message, downloaded, transcribed) ==
    [ userText  |-> \/ message.type \in {"text", "image"} /\ message.text
                    \/ /\ message.type = "audio"
                       /\ message.mediaUrl /\ downloaded /\ transcribed,
      imageData |-> message.type = "image" /\ message.mediaUrl /\ downloaded ]

\* A faulty variant of lines 639-731: the check of line 729 left out.
DispatchWithoutContent(downloaded, transcribed) ==
    LET item == FirstItem(post.payload)
        message == item.message
        content == Content(message, downloaded, transcribed)
    IN  /\ post.pc = "received"
        /\ post' =
              IF \/ message.direction # "inbound"
                 \/ message.type \notin {"text", "image", "audio"}
                 \/ ~item.phoneNumberId
              THEN [post EXCEPT !.pc = "done", !.response = 200]
              ELSE [post EXCEPT !.pc = "getOrCreateUser",
                                !.payload = NoPayload,
                                !.userText = content.userText,
                                !.imageData = content.imageData,
                                !.sender = Digits(message.from),
                                !.rest = OtherSenders(post.payload),
                                !.before = BagCardinality(expenses)]
        /\ UNCHANGED <<apart, tz, now, expenses, range, call, result, users, calls,
                       image>>

\* Lines 639-731: the early returns with 200, or the entry into the try
\* block of line 733.
Dispatch(downloaded, transcribed) ==
    LET item == FirstItem(post.payload)
        message == item.message
        content == Content(message, downloaded, transcribed)
    IN  /\ post.pc = "received"
        /\ post' =
              IF \/ message.direction # "inbound"
                 \/ message.type \notin {"text", "image", "audio"}
                 \/ ~item.phoneNumberId
                 \/ ~content.userText /\ ~content.imageData
              THEN [post EXCEPT !.pc = "done", !.response = 200]
              ELSE [post EXCEPT !.pc = "getOrCreateUser",
                                !.payload = NoPayload,
                                !.userText = content.userText,
                                !.imageData = content.imageData,
                                !.sender = Digits(message.from),
                                !.rest = OtherSenders(post.payload),
                                !.before = BagCardinality(expenses)]
        /\ UNCHANGED <<apart, tz, now, expenses, range, call, result, users, calls,
                       image>>

\* Line 632: request.json() rejects on a body that is not JSON; the
\* rejection leaves POST, which returns no Response.
ReceiveMalformed ==
    /\ post.pc \in {"idle", "done", "rejected"}
    /\ post' = [NoPost EXCEPT !.pc = "rejected", !.error = "request.json"]
    /\ call' = NoCall
    /\ result' = NoResult
    /\ image' = NoImage
    /\ UNCHANGED <<apart, tz, now, expenses, range, users, calls>>

\* getOrCreateUser: the row with the phone number, inserted when missing.
GetOrCreateUser(phoneNumber) ==
    LET existing == {u \in users : u.phoneNumber = phoneNumber}
        id == CHOOSE x \in Users : \A u \in users : u.id # x
    IN  /\ users' = IF existing # {} THEN users
                    ELSE users \cup {[ id |-> id, phoneNumber |-> phoneNumber,
                                       timezone |-> "America/Bogota" ]}
        /\ \E u \in users' :
              /\ u.phoneNumber = phoneNumber
              /\ post' = [post EXCEPT !.pc = "getConversationMessages",
                                      !.userId = u.id]

PostGetOrCreateUser ==
    /\ post.pc = "getOrCreateUser"
    /\ GetOrCreateUser(post.sender)
    /\ UNCHANGED <<apart, tz, now, expenses, range, call, result, calls, image>>

\* Lines 744-749: without a conversation id nothing is fetched; with one,
\* getConversationMessages returns the history, or [] when the fetch fails.
PostGetConversationMessages ==
    /\ post.pc = "getConversationMessages"
    /\ post' = [post EXCEPT !.pc = "generateText"]
    /\ UNCHANGED <<apart, tz, now, expenses, range, call, result, users, calls, image>>

\* Lines 859-905: generateText returns steps and text; getWhatsAppClient
\* throws without KAPSO_API_KEY.
PostGenerateText(steps, text) ==
    /\ post.pc = "generateText"
    /\ BagCardinality(expenses) + CountResults(steps, {"logExpense"})
          <= MaxExpenses
    /\ post' =
          LET p == [post EXCEPT !.steps = steps, !.text = text,
                                !.userText = FALSE, !.imageData = FALSE]
          IN  IF ~post.env
              THEN [p EXCEPT !.pc = "catch", !.error = "getWhatsAppClient"]
              ELSE AfterToolResult(p, IF steps = << >> THEN <<0, 0>>
                                      ELSE <<1, 1>>)
    /\ UNCHANGED <<apart, tz, now, expenses, range, call, result, users, calls, image>>

AtToolResult(stage, toolName) ==
    /\ post.pc = "tools"
    /\ post.stage = stage
    /\ post.steps[post.i][post.j].toolName = toolName

\* Line 917.
PostSaveExpense ==
    /\ AtToolResult("call", "logExpense")
    /\ SaveExpense(post.userId, post.steps[post.i][post.j].output)
    /\ post' = [post EXCEPT !.stage = "render",
                            !.log = Append(@, Event("insert"))]
    /\ UNCHANGED <<users, calls, image>>

RECURSIVE Events(_, _)
Events(ev, n) == IF n = 0 THEN << >> ELSE <<Event(ev)>> \o Events(ev, n - 1)

\* The handler after an aggregator call: at the rendering of the Summary,
\* or in the catch block with the error the call threw.
AfterAggregator(p, c) ==
    IF c.threw = "none"
    THEN [p EXCEPT !.stage = "render",
                   !.log = @ \o Events("findMany", c.reads)]
    ELSE [p EXCEPT !.pc = "catch", !.stage = "none", !.error = c.threw,
                   !.log = @ \o Events("findMany", c.reads)]

\* Line 960.
PostGetExpensesSummary ==
    /\ AtToolResult("call", "getExpensesSummary")
    /\ \/ GetExpensesSummary(post.userId, post.steps[post.i][post.j].output)
       \/ \E e \in StorageErrors :
             GetExpensesSummaryFails(post.userId,
                                     post.steps[post.i][post.j].output, e)
    /\ post' = AfterAggregator(post, call')
    /\ UNCHANGED <<users, calls, image>>

\* Line 998.
PostGetExpensesByCategory ==
    /\ AtToolResult("call", "getExpensesByCategory")
    /\ \/ GetExpensesByCategory(post.userId, post.steps[post.i][post.j].output)
       \/ \E e \in StorageErrors :
             GetExpensesByCategoryFails(post.userId,
                                        post.steps[post.i][post.j].output, e)
    /\ post' = AfterAggregator(post, call')
    /\ UNCHANGED <<users, calls, image>>

\* Lines 936, 973 and 1011: renderExpenseAdded or renderExpensesSummary.
PostRender ==
    /\ post.pc = "tools"
    /\ post.stage = "render"
    /\ IF post.steps[post.i][post.j].toolName = "logExpense"
       THEN /\ image' = [template |-> "expense-added", bars |-> << >>]
            /\ result' = result
       ELSE RenderExpensesSummary
    /\ post' = [post EXCEPT !.stage = "uploadImage",
                            !.log = Append(@, Event("render"))]
    /\ UNCHANGED <<apart, tz, now, expenses, range, call, users, calls>>

\* Lines 939, 976 and 1014.
PostUploadImage ==
    /\ post.pc = "tools"
    /\ post.stage = "uploadImage"
    /\ post' = [post EXCEPT !.stage = "sendImage",
                            !.log = Append(@, Event("uploadImage"))]
    /\ UNCHANGED <<apart, tz, now, expenses, range, call, result, users, calls, image>>

\* Lines 945, 982 and 1020, and the step of the loops that follows.
PostSendImage ==
    /\ post.pc = "tools"
    /\ post.stage = "sendImage"
    /\ post' = AfterToolResult(
                  [post EXCEPT !.log = Append(@, Event("sendImage"))],
                  Advance(post.steps, post.i, post.j))
    /\ UNCHANGED <<apart, tz, now, expenses, range, call, result, users, calls, image>>

\* Lines 1034-1042 and 1066.
PostSendText ==
    /\ post.pc = "sendText"
    /\ post' = [post EXCEPT !.pc = "done", !.response = 200,
                            !.log = Append(@, Event("sendText"))]
    /\ UNCHANGED <<apart, tz, now, expenses, range, call, result, users, calls, image>>

\* The call the handler is waiting for, other than an aggregator's.
Awaited ==
    IF post.pc = "tools"
    THEN (IF post.stage = "call" THEN "saveExpense" ELSE post.stage)
    ELSE post.pc

\* A faulty variant of the catch: the row of the tool result at hand is
\* deleted when its image fails.
ThrowsAndRollsBack ==
    /\ \/ post.pc \in {"getOrCreateUser", "generateText", "sendText"}
       \/ post.pc = "getConversationMessages" /\ ~post.env
       \/ post.pc = "tools" /\ post.stage # "call"
       \/ AtToolResult("call", "logExpense")
    /\ post' = [post EXCEPT !.pc = "catch", !.stage = "none",
                            !.error = Awaited]
    /\ expenses' =
          IF /\ post.pc = "tools" /\ post.stage # "call"
             /\ post.steps[post.i][post.j].toolName = "logExpense"
          THEN expenses (-) SetToBag({saveExpense(post.userId,
                                         post.steps[post.i][post.j].output)})
          ELSE expenses
    /\ UNCHANGED <<apart, tz, now, range, call, result, users, calls, image>>

\* The awaited call rejects inside the try block of lines 733-1044: control
\* goes to the catch block of line 1045.  getConversationMessages throws
\* only without KAPSO_API_KEY.
Throws ==
    /\ \/ post.pc \in {"getOrCreateUser", "generateText", "sendText"}
       \/ post.pc = "getConversationMessages" /\ ~post.env
       \/ post.pc = "tools" /\ post.stage # "call"
       \/ AtToolResult("call", "logExpense")
    /\ post' = [post EXCEPT !.pc = "catch", !.stage = "none",
                            !.error = Awaited]
    /\ UNCHANGED <<apart, tz, now, expenses, range, call, result, users, calls, image>>

\* Lines 1045-1066 when the fallback text is sent.
CatchSendsFallback ==
    /\ post.pc = "catch"
    /\ post.env
    /\ post' = [post EXCEPT !.pc = "done", !.response = 200,
                            !.log = Append(@, Event("sendFallback"))]
    /\ UNCHANGED <<apart, tz, now, expenses, range, call, result, users, calls, image>>

\* A faulty variant of the catch block: the failure of the fallback leaves
\* the handler.
CatchFallbackRethrows ==
    /\ post.pc = "catch"
    /\ post' = [post EXCEPT !.pc = "rejected",
                   !.log = IF post.env
                           THEN @ \o <<Event("sendFallback"), Event("sendError")>>
                           ELSE Append(@, Event("sendError"))]
    /\ UNCHANGED <<apart, tz, now, expenses, range, call, result, users, calls, image>>

\* Lines 1045-1066 when the fallback fails: getWhatsAppClient throws without
\* KAPSO_API_KEY, or sendText rejects; the inner catch logs the error.
CatchFallbackFails ==
    /\ post.pc = "catch"
    /\ post' = [post EXCEPT !.pc = "done", !.response = 200,
                   !.log = IF post.env
                           THEN @ \o <<Event("sendFallback"), Event("sendError")>>
                           ELSE Append(@, Event("sendError"))]
    /\ UNCHANGED <<apart, tz, now, expenses, range, call, result, users, calls, image>>

---------------------------------------------------------------------------
(* SpecPost: webhook requests handled one after the other                  *)

\* Legacy payloads of one sender, with a media URL on images and audios.
PostPayloads ==
    { p \in Payloads :
        /\ ~p.batch /\ p.data = << >>
        /\ p.message # NoMessage
        /\ p.message.from = <<"+", "5", "7", " ", "3">>
        /\ p.message.mediaUrl = (p.message.type \in {"image", "audio"}) }

NextPost ==
    \/ \E payload \in PostPayloads, env \in BOOLEAN : Receive(payload, env)
    \/ ReceiveMalformed
    \/ \E downloaded \in BOOLEAN, transcribed \in BOOLEAN :
          Dispatch(downloaded, transcribed)
    \/ PostGetOrCreateUser
    \/ PostGetConversationMessages
    \/ \E steps \in StepLists, text \in Texts : PostGenerateText(steps, text)
    \/ PostSaveExpense
    \/ PostGetExpensesSummary
    \/ PostGetExpensesByCategory
    \/ PostRender
    \/ PostUploadImage
    \/ PostSendImage
    \/ PostSendText
    \/ Throws
    \/ CatchSendsFallback
    \/ CatchFallbackFails

SpecPost == Init /\ [][NextPost]_vars

---------------------------------------------------------------------------
(* SpecWebhook: every shape of webhook body, and replies of at most one     *)
(* logExpense tool result                                                  *)

WebhookSteps == {<< >>, <<<<[toolName |-> "logExpense", output |-> LogParams]>>>>}

NextWebhook ==
    \/ \E payload \in Payloads : Receive(payload, TRUE)
    \/ ReceiveMalformed
    \/ \E downloaded \in BOOLEAN, transcribed \in BOOLEAN :
          Dispatch(downloaded, transcribed)
    \/ PostGetOrCreateUser
    \/ PostGetConversationMessages
    \/ \E steps \in WebhookSteps, text \in {"", "Listo!"} :
          PostGenerateText(steps, text)
    \/ PostSaveExpense
    \/ PostRender
    \/ PostUploadImage
    \/ PostSendImage
    \/ PostSendText
    \/ Throws
    \/ CatchSendsFallback
    \/ CatchFallbackFails

SpecWebhook == Init /\ [][NextWebhook]_vars

---------------------------------------------------------------------------
(* SpecUsers: POST requests whose calls of getOrCreateUser overlap         *)

NoUser == [id |-> "none"]

\* Lines 323-325: the row with the phone number, if there is one.
findFirst(table, phoneNumber) ==
    IF \E u \in table : u.phoneNumber = phoneNumber
    THEN CHOOSE u \in table : u.phoneNumber = phoneNumber
    ELSE NoUser

\* Lines 332-338: the row that the insert adds, with the id that
\* defaultRandom() gives it.
newUser(table, phoneNumber) ==
    [ id |-> CHOOSE x \in Users : \A u \in table : u.id # x,
      phoneNumber |-> phoneNumber, timezone |-> "America/Bogota" ]

\* A request with an inbound text reaches line 735 and getOrCreateUser
\* awaits findFirst.
Arrive(from) ==
    /\ Len(requests) < MaxRequests
    /\ requests' = Append(requests,
          [ sender |-> Digits(from), pc |-> "findFirst", userId |-> "none",
            error |-> "none", response |-> 0 ])
    /\ UNCHANGED <<tz, now, expenses, range, call, result, users, post, calls,
                   image, foodEntries, dbInstance, instance, created>>

\* Lines 323-329: findFirst resolves.
FindFirst(r) ==
    LET existingUser == findFirst(users, requests[r].sender)
    IN  /\ requests[r].pc = "findFirst"
        /\ requests' =
              IF existingUser # NoUser
              THEN [requests EXCEPT ![r].pc = "user",
                                    ![r].userId = existingUser.id]
              ELSE [requests EXCEPT ![r].pc = "insert"]
        /\ UNCHANGED <<tz, now, expenses, range, call, result, users, post,
                       calls, image, foodEntries, dbInstance, instance,
                       created>>

\* A faulty variant of the insert: phone_number without the unique
\* constraint.
InsertUserNotUnique(r) ==
    /\ requests[r].pc = "insert"
    /\ Cardinality(users) < Cardinality(Users)
    /\ users' = users \cup {newUser(users, requests[r].sender)}
    /\ requests' = [requests EXCEPT
                       ![r].pc = "user",
                       ![r].userId = newUser(users, requests[r].sender).id]
    /\ UNCHANGED <<tz, now, expenses, range, call, result, post, calls, image,
                   foodEntries, dbInstance, instance, created>>

\* Lines 332-340: the insert resolves with the new row, or rejects because
\* phone_number is unique and the table has the number by now.
InsertUser(r) ==
    /\ requests[r].pc = "insert"
    /\ IF \E u \in users : u.phoneNumber = requests[r].sender
       THEN /\ users' = users
            /\ requests' = [requests EXCEPT
                               ![r].pc = "catch",
                               ![r].error = "unique constraint"]
       ELSE /\ users' = users \cup {newUser(users, requests[r].sender)}
            /\ requests' = [requests EXCEPT
                               ![r].pc = "user",
                               ![r].userId =
                                   newUser(users, requests[r].sender).id]
    /\ UNCHANGED <<tz, now, expenses, range, call, result, post, calls, image,
                   foodEntries, dbInstance, instance, created>>

\* Lines 737-1044 and 1066: the rest of the try block, which does not touch
\* the users table.
Proceed(r) ==
    /\ requests[r].pc = "user"
    /\ requests' = [requests EXCEPT ![r].pc = "done", ![r].response = 200]
    /\ UNCHANGED <<tz, now, expenses, range, call, result, users, post, calls,
                   image, foodEntries, dbInstance, instance, created>>

\* Lines 1045-1066: the catch block.
Caught(r) ==
    /\ requests[r].pc = "catch"
    /\ requests' = [requests EXCEPT ![r].pc = "done", ![r].response = 200]
    /\ UNCHANGED <<tz, now, expenses, range, call, result, users, post, calls,
                   image, foodEntries, dbInstance, instance, created>>

NextUsers ==
    \/ \E from \in Froms : Arrive(from)
    \/ \E r \in DOMAIN requests : FindFirst(r)
    \/ \E r \in DOMAIN requests : InsertUser(r)
    \/ \E r \in DOMAIN requests : Proceed(r)
    \/ \E r \in DOMAIN requests : Caught(r)

SpecUsers == Init /\ [][NextUsers]_vars

---------------------------------------------------------------------------
(* SpecConc: getExpensesSummary calls whose awaits overlap                 *)

\* Lines 440-463: the part of getExpensesSummary that runs before it awaits
\* findMany.
StartSummary(userId, params) ==
    /\ Len(calls) < MaxCalls
    /\ calls' = Append(calls,
          [ userId |-> userId, params |-> params,
            at     |-> IF params.date = NoDate THEN now ELSE 0,
            rng    |-> getDateRangeForPeriod(params.period,
                                             ReferenceDate(params, now)),
            pc     |-> "awaiting",
            result |-> NoResult ])
    /\ UNCHANGED <<apart, tz, now, expenses, range, call, result, users, post, image>>

\* Lines 463-501: findMany resolves and the call runs to its return without
\* another await.
ResumeSummary(c) ==
    LET this == calls[c]
        matching == [row \in DOMAIN expenses |->
                        WhereSummary(row, this.userId, this.rng.start,
                                     this.rng.end, this.params.category)]
    IN  /\ this.pc = "awaiting"
        /\ \E entries \in findMany(matching) :
              calls' = [calls EXCEPT
                          ![c].pc = "returned",
                          ![c].result = getExpensesSummary(this.rng, entries)]
        /\ UNCHANGED <<apart, tz, now, expenses, range, call, result, users, post, image>>

ConcSaveParams == [amount : Amounts, category : Categories, spentAt : {T0}]

ConcSummaryParams ==
    { [period |-> "day", date |-> Dec1, category |-> NoCategory],
      [period |-> "month", date |-> NoDate, category |-> "food_dining"] }

\* The table is filled before the calls start and stays as it is while they
\* run.
NextConc ==
    \/ \E userId \in Users, params \in ConcSaveParams :
          /\ calls = << >>
          /\ BagCardinality(expenses) < MaxExpenses
          /\ SaveExpense(userId, params)
          /\ UNCHANGED <<users, post, calls, image>>
    \/ \E userId \in Users, params \in ConcSummaryParams :
          StartSummary(userId, params)
    \/ \E c \in DOMAIN calls : ResumeSummary(c)

SpecConc == Init /\ [][NextConc]_vars

---------------------------------------------------------------------------
(* SpecRender: Summaries of a day rendered as images                       *)

RenderSaveParams ==
    [ amount   : {1000, 2500},
      category : {"food_dining", "transportation", "shopping"},
      spentAt  : {T0} ]

NextRender ==
    \/ \E params \in RenderSaveParams :
          /\ BagCardinality(expenses) < MaxExpenses
          /\ SaveExpense("u1", params)
          /\ image' = NoImage
          /\ UNCHANGED <<users, post, calls>>
    \/ \E params \in SumSummaryParams :
          /\ call = NoCall
          /\ GetExpensesSummary("u1", params)
          /\ UNCHANGED <<users, post, calls, image>>
    \/ /\ call.op = "getExpensesSummary"
       /\ image = NoImage
       /\ RenderExpensesSummary
       /\ UNCHANGED <<apart, tz, now, expenses, range, call, users, post, calls>>

SpecRender == Init /\ [][NextRender]_vars

---------------------------------------------------------------------------
(* SpecLabels: the period labels of the Summaries and their translations   *)

\* Strings a caller can hand to translatePeriodLabel.
Labels ==
    { "Today", "This Week", "This Month", "This Year", "Custom Range",
      "Last Week", "", "constructor", "toString" }

\* translatePeriodLabel(periodLabel, locale), called on its own.
TranslatePeriodLabel(periodLabel, locale) ==
    /\ call' = [ op |-> "translatePeriodLabel", periodLabel |-> periodLabel,
                 locale |-> locale ]
    /\ result' = [periodLabel |-> translatePeriodLabel(periodLabel, locale)]
    /\ image' = NoImage
    /\ UNCHANGED <<apart, tz, now, expenses, range, users, post, calls>>

\* renderExpensesSummary on the Summary at hand: without data.language, as
\* POST calls it (lines 962-973), or with one.
RenderInLanguage(language) ==
    /\ call.op \in {"getExpensesSummary", "getExpensesByCategory"}
    /\ result # NoResult
    /\ image' = ExpensesSummaryTemplate(
                    IF language = undefined THEN result
                    ELSE result @@ [language |-> language]).image
    /\ UNCHANGED <<apart, tz, now, expenses, range, call, result, users, post,
                   calls>>

LabelSummaryParams ==
    [period : Periods, date : {Nov30, Dec1, NoDate},
     category : Categories \cup {NoCategory}]

NextLabels ==
    \/ \E params \in LabelSummaryParams :
          /\ GetExpensesSummary("u1", params)
          /\ image' = NoImage
          /\ UNCHANGED <<users, post, calls>>
    \/ \E params \in ByCategoryParams :
          /\ GetExpensesByCategory("u1", params)
          /\ image' = NoImage
          /\ UNCHANGED <<users, post, calls>>
    \/ \E language \in SupportedLocales \cup {undefined} :
          RenderInLanguage(language)
    \/ \E periodLabel \in Labels, locale \in SupportedLocales :
          TranslatePeriodLabel(periodLabel, locale)

SpecLabels == Init /\ [][NextLabels]_vars

---------------------------------------------------------------------------
(* SpecHistory: getConversationMessages over the responses of the API      *)

\* KapsoMessage: the type, kapso.content, text.body, and whether `from` is
\* there (inbound) or `to` (outbound).
KapsoMessages ==
    [ type    : {"text", "image"},
      content : {undefined, "gaste 25 en almuerzo"},
      body    : {undefined, "", "cuanto llevo"},
      from    : BOOLEAN ]

\* What the fetch of lines 267-281 ends with: a rejection (of fetch or of
\* response.json()), a status that is not OK, a body without data, or the
\* messages, newest first.
Fetches ==
    { [outcome |-> "rejected", data |-> << >>],
      [outcome |-> "not ok", data |-> << >>],
      [outcome |-> "no data", data |-> << >>] }
        \cup [outcome : {"ok"}, data : SeqsUpTo(KapsoMessages, MaxMessages)]

\* a || b
Or(a, b) == IF Truthy(a) THEN a ELSE b

hasContent(msg) ==
    msg.type = "text" /\ Truthy(Or(msg.content, msg.body))

toHistory(msg) ==
    [ role    |-> IF msg.from THEN "user" ELSE "assistant",
      content |-> Or(Or(msg.content, msg.body), "") ]

RECURSIVE reverse(_)
reverse(list) ==
    IF list = << >> THEN << >>
    ELSE Append(reverse(Tail(list)), Head(list))

\* data.filter(...).map(...)
filterMap(data) ==
    LET kept == SelectSeq(data, hasContent)
    IN  [k \in DOMAIN kept |-> toHistory(kept[k])]

\* messages.pop()
pop(list) == SubSeq(list, 1, Len(list) - 1)

\* A faulty variant of lines 288-314: without the reverse().
getConversationMessagesNewestFirst(fetch) ==
    IF fetch.outcome # "ok" \/ Len(fetch.data) = 0 THEN << >>
    ELSE LET messages == filterMap(fetch.data)
         IN  IF Len(messages) > 0 THEN pop(messages) ELSE messages

\* Lines 265-314 of getConversationMessages.
getConversationMessages(fetch) ==
    IF fetch.outcome # "ok" \/ Len(fetch.data) = 0 THEN << >>
    ELSE LET messages == reverse(filterMap(fetch.data))
         IN  IF Len(messages) > 0 THEN pop(messages) ELSE messages

\* A call of getConversationMessages.  Without KAPSO_API_KEY it throws at
\* line 256, before the fetch.
GetConversationMessages(env, fetch) ==
    /\ call' = [ op |-> "getConversationMessages", fetch |-> fetch,
                 threw |-> IF env THEN "none" ELSE "KAPSO_API_KEY" ]
    /\ result' = IF env THEN [history |-> getConversationMessages(fetch)]
                 ELSE NoResult
    /\ UNCHANGED <<apart, tz, now, expenses, range, users, post, calls, image>>

\* One call in each behaviour: the function keeps nothing between calls.
NextHistory ==
    \E env \in BOOLEAN, fetch \in Fetches :
        call = NoCall /\ GetConversationMessages(env, fetch)

SpecHistory == Init /\ [][NextHistory]_vars

---------------------------------------------------------------------------
(* SpecSingletons: the calls of getDb and Logger.getInstance in a process  *)

Returned(op, value) ==
    [created EXCEPT !.returned = Append(@, [op |-> op, value |-> value])]

\* A faulty variant of getDb: the instance is built and returned without
\* being kept in dbInstance.
getDbNotKept(url) ==
    /\ Len(created.returned) < MaxGets
    /\ IF ~url
       THEN /\ dbInstance' = dbInstance
            /\ created' = Returned("getDb", "threw")
       ELSE LET db == <<"db", Len(created.db) + 1>>
            IN  /\ dbInstance' = dbInstance
                /\ created' = [Returned("getDb", db) EXCEPT
                                  !.db = Append(@, db)]
    /\ UNCHANGED <<tz, now, expenses, range, call, result, users, post, calls,
                   image, requests, foodEntries, instance>>

\* getDb (part_006, lines 16-22).  url tells whether DATABASE_URL is set at
\* the time of the call: without it getDatabaseUrl throws and dbInstance
\* stays null.
getDb(url) ==
    /\ Len(created.returned) < MaxGets
    /\ IF dbInstance # null
       THEN /\ dbInstance' = dbInstance
            /\ created' = Returned("getDb", dbInstance)
       ELSE IF ~url
       THEN /\ dbInstance' = dbInstance
            /\ created' = Returned("getDb", "threw")
       ELSE LET db == <<"db", Len(created.db) + 1>>
            IN  /\ dbInstance' = db
                /\ created' = [Returned("getDb", db) EXCEPT
                                  !.db = Append(@, db)]
    /\ UNCHANGED <<tz, now, expenses, range, call, result, users, post, calls,
                   image, requests, foodEntries, instance>>

\* Logger.getInstance (logger.ts, lines 42-47).
getInstance ==
    /\ Len(created.returned) < MaxGets
    /\ IF instance # null
       THEN /\ instance' = instance
            /\ created' = Returned("getInstance", instance)
       ELSE LET logger == <<"Logger", Len(created.logger) + 1>>
            IN  /\ instance' = logger
                /\ created' = [Returned("getInstance", logger) EXCEPT
                                  !.logger = Append(@, logger)]
    /\ UNCHANGED <<tz, now, expenses, range, call, result, users, post, calls,
                   image, requests, foodEntries, dbInstance>>

NextSingletons ==
    \/ \E url \in BOOLEAN : getDb(url)
    \/ getInstance

SpecSingletons == Init /\ [][NextSingletons]_vars

---------------------------------------------------------------------------
(* SpecFood: the food diary of the earlier webhook (route.ts, lines        *)
(* 1068-1751): saveFoodEntry and getDailySummary over food_entries         *)

\* The row saveFoodEntry inserts: the macros are decimal(10,2) values, kept
\* as a whole number of hundredths.
saveFoodEntry(userId, params) ==
    [ userId   |-> userId,
      eatenAt  |-> params.eatenAt,
      calories |-> params.calories,
      protein  |-> params.protein,
      carbs    |-> params.carbs,
      fat      |-> params.fat ]

\* Lines 1372-1376: the bounds of the day in Colombia.
DayBounds(dt) ==
    [ startOfDayUTC |-> DateUTC(dt.y, dt.m - 1, dt.d, ColombiaOffsetHours),
      endOfDayUTC   |-> DateUTC(dt.y, dt.m - 1, dt.d + 1, ColombiaOffsetHours) ]

\* Lines 1379-1382.
WhereDaily(row, userId, bounds) ==
    /\ row.userId = userId
    /\ row.eatenAt >= bounds.startOfDayUTC
    /\ row.eatenAt < bounds.endOfDayUTC

\* Lines 1386-1394: entries.reduce over the rows in the order findMany
\* returned them.
RECURSIVE Totals(_, _)
Totals(acc, entries) ==
    IF entries = << >> THEN acc
    ELSE Totals([ calories |-> DoubleAdd(acc.calories,
                                   NumberOfCents(Head(entries).calories)),
                  protein  |-> DoubleAdd(acc.protein,
                                   NumberOfCents(Head(entries).protein)),
                  carbs    |-> DoubleAdd(acc.carbs,
                                   NumberOfCents(Head(entries).carbs)),
                  fat      |-> DoubleAdd(acc.fat,
                                   NumberOfCents(Head(entries).fat)) ],
                Tail(entries))

\* The value getDailySummary returns for the rows `entries`.
getDailySummary(entries) ==
    Totals([calories |-> DZero, protein |-> DZero, carbs |-> DZero,
            fat |-> DZero], entries)
        @@ [entryCount |-> Len(entries)]

SaveFoodEntry(userId, params) ==
    /\ BagCardinality(foodEntries) < MaxFoodEntries
    /\ foodEntries' = foodEntries (+) SetToBag({saveFoodEntry(userId, params)})
    /\ call' = NoCall
    /\ result' = NoResult
    /\ UNCHANGED <<tz, now, expenses, range, users, post, calls, image,
                   requests, dbInstance, instance, created>>

\* findMany has no orderBy: the rows come in an order that SQL leaves to
\* the database.
GetDailySummary(userId, dt) ==
    LET bounds == DayBounds(dt)
        matching == [r \in {x \in DOMAIN foodEntries :
                               WhereDaily(x, userId, bounds)}
                        |-> foodEntries[r]]
    IN  \E entries \in Orders(matching) :
            /\ call' = [op |-> "getDailySummary", userId |-> userId,
                        date |-> dt]
            /\ result' = getDailySummary(entries)
            /\ UNCHANGED <<tz, now, expenses, range, users, post, calls,
                           image, requests, foodEntries, dbInstance, instance,
                           created>>

\* Entries of 0.10 and 0.20 kcal (and as many grams of fat), eaten in the
\* last hour of November 30, in the first and the last hour of December 1,
\* and in the first hour of December 2, in Colombia.
FoodParams ==
    [ eatenAt  : {T0 - 1, T0, T0 + 23, T0 + 24},
      calories : {10, 20},
      protein  : {1250},
      carbs    : {0},
      fat      : {10, 20} ]

NextFood ==
    \/ \E userId \in Users, params \in FoodParams :
          SaveFoodEntry(userId, params)
    \/ \E userId \in Users : GetDailySummary(userId, Dec1)

SpecFood == Init /\ [][NextFood]_vars

---------------------------------------------------------------------------
(* SpecZone: the windows of calls made for two users at several instants   *)

\* Two rows of the users table.  getOrCreateUser writes the timezone
\* "America/Bogota"; the column is free text, so rows written by another
\* client of the database can hold another zone.
ZoneUsers ==
    { [ id |-> "u1", phoneNumber |-> <<"5", "7", "3">>,
        timezone |-> "America/Bogota" ],
      [ id |-> "u2", phoneNumber |-> <<"3", "4", "6">>,
        timezone |-> "Europe/Madrid" ] }

InitZone ==
    /\ tz \in ServerZones
    /\ now \in InitNows
    /\ expenses = EmptyBag
    /\ range = NoRange
    /\ call = NoCall
    /\ result = NoResult
    /\ users = ZoneUsers
    /\ post = NoPost
    /\ calls = << >>
    /\ image = NoImage
    /\ InitApart

ZoneParams == [period : Periods, date : {NoDate, Dec31}, category : {NoCategory}]

NextZone ==
    \/ Tick
    \/ \E u \in users, params \in ZoneParams : StartSummary(u.id, params)

SpecZone == InitZone /\ [][NextZone]_vars

---------------------------------------------------------------------------
(* THE CALENDAR OF THE CLAIMS: day numbers obtained by counting the days of *)
(* the years and months since 1970-01-01, not by the ECMAScript formulas.  *)

IsLeap(y) == IF y % 400 = 0 THEN TRUE ELSE IF y % 100 = 0 THEN FALSE ELSE y % 4 = 0

MonthLength(y, m) ==
    IF m = 2 THEN (IF IsLeap(y) THEN 29 ELSE 28)
    ELSE IF m \in {4, 6, 9, 11} THEN 30 ELSE 31

RECURSIVE DaysOfYearsBefore(_)
DaysOfYearsBefore(y) ==
    IF y <= 1970 THEN 0
    ELSE DaysOfYearsBefore(y - 1) + (IF IsLeap(y - 1) THEN 366 ELSE 365)

RECURSIVE DaysOfMonthsBefore(_, _)
DaysOfMonthsBefore(y, m) ==
    IF m <= 1 THEN 0 ELSE DaysOfMonthsBefore(y, m - 1) + MonthLength(y, m - 1)

CivilDay(dt) == DaysOfYearsBefore(dt.y) + DaysOfMonthsBefore(dt.y, dt.m) + dt.d - 1

\* 00:00 in Colombia (UTC-5) of a day number, as an instant.
LocalMidnight(day) == day * 24 + 5

\* 2023-01-01 was a Sunday.
IsSunday(day) == (day - CivilDay([y |-> 2023, m |-> 1, d |-> 1])) % 7 = 0

CivilDates ==
    { dt \in [y : (FirstYear - 1) .. (LastYear + 1), m : 1 .. 12, d : 1 .. 31] :
        dt.d <= MonthLength(dt.y, dt.m) }

\* The calendar date the window of `range` was asked for: params.date, or
\* the date in Colombia at the time of the call.
RefDate ==
    IF range.date # NoDate THEN range.date
    ELSE CHOOSE dt \in CivilDates :
            /\ LocalMidnight(CivilDay(dt)) <= range.at
            /\ range.at < LocalMidnight(CivilDay(dt) + 1)

RefDay == CivilDay(RefDate)

FirstOfNextMonth(dt) ==
    IF dt.m = 12 THEN [y |-> dt.y + 1, m |-> 1, d |-> 1]
                 ELSE [y |-> dt.y, m |-> dt.m + 1, d |-> 1]

---------------------------------------------------------------------------
(* CLAIMS ABOUT THE PERIOD WINDOW (checked under SpecPeriod)               *)

\* C3: for every period kind and every reference date, getDateRangeForPeriod
\* returns a start that is strictly earlier than the end.
C3_StartBeforeEnd ==
    range # NoRange => range.start < range.end

\* A day window asked for the last day of a leap February.
C3_Witness ==
    /\ range # NoRange
    /\ range.period = "day"
    /\ range.date = [y |-> 2024, m |-> 2, d |-> 29]
    /\ range.start < range.end

\* C4: for period "week", start is 00:00 (UTC-5) of the most recent Sunday on
\* or before the reference date, the reference date itself when it is a
\* Sunday, and end is 00:00 of the Sunday seven days later.
C4_WeekStartsSunday ==
    (range # NoRange /\ range.period = "week") =>
        \E s \in (RefDay - 6) .. RefDay :
            /\ IsSunday(s)
            /\ range.start = LocalMidnight(s)
            /\ range.end = LocalMidnight(s + 7)
            /\ range.end - range.start = 7 * 24

\* Wednesday 2025-01-01: the week starts on Sunday 2024-12-29, in the year
\* before, and ends on Sunday 2025-01-05.
C4_Witness ==
    /\ range # NoRange
    /\ range.period = "week"
    /\ range.date = [y |-> 2025, m |-> 1, d |-> 1]
    /\ ~IsSunday(RefDay)
    /\ range.start = LocalMidnight(CivilDay([y |-> 2024, m |-> 12, d |-> 29]))
    /\ range.end = LocalMidnight(CivilDay([y |-> 2025, m |-> 1, d |-> 5]))

\* C5: for period "month", start is 00:00 (UTC-5) of the 1st of the reference
\* date's month and end is 00:00 of the 1st of the following month, for
\* months of 28, 29, 30 and 31 days; for December the end is January 1 of
\* the next year.
C5_MonthWindow ==
    (range # NoRange /\ range.period = "month") =>
        /\ range.start = LocalMidnight(CivilDay([RefDate EXCEPT !.d = 1]))
        /\ range.end = LocalMidnight(CivilDay(FirstOfNextMonth(RefDate)))
        /\ range.end - range.start = 24 * MonthLength(RefDate.y, RefDate.m)

\* Reference date December 20: the window ends on January 1 of the next year.
C5_Witness ==
    /\ range # NoRange
    /\ range.period = "month"
    /\ range.date = [y |-> 2024, m |-> 12, d |-> 20]
    /\ range.end = LocalMidnight(CivilDay([y |-> 2025, m |-> 1, d |-> 1]))

\* C6: for period "day", start is 00:00 (UTC-5), that is 05:00 UTC, of the
\* reference date and end is 00:00 of the next calendar day, 24 hours later;
\* for period "year", start is 00:00 of January 1 of the reference year and
\* end is 00:00 of January 1 of the next year.
C6_DayAndYearWindow ==
    /\ (range # NoRange /\ range.period = "day") =>
          /\ range.start = LocalMidnight(RefDay)
          /\ range.start % 24 = 5
          /\ range.end = LocalMidnight(RefDay + 1)
          /\ range.end - range.start = 24
    /\ (range # NoRange /\ range.period = "year") =>
          /\ range.start = LocalMidnight(CivilDay([y |-> RefDate.y, m |-> 1, d |-> 1]))
          /\ range.end = LocalMidnight(CivilDay([y |-> RefDate.y + 1, m |-> 1, d |-> 1]))

\* A day window asked for December 31: it ends at 00:00 of January 1.
C6_Witness ==
    /\ range # NoRange
    /\ range.period = "day"
    /\ range.date = [y |-> 2024, m |-> 12, d |-> 31]
    /\ range.end = LocalMidnight(CivilDay([y |-> 2025, m |-> 1, d |-> 1]))

---------------------------------------------------------------------------
(* CLAIMS ABOUT THE AGGREGATION                                            *)

IsSummaryCall == call.op = "getExpensesSummary"

IsByCategoryCall == call.op = "getExpensesByCategory"

\* The window the last call asked for.
CallWindow ==
    IF IsSummaryCall
    THEN LET rng == getDateRangeForPeriod(call.params.period,
                        ReferenceDate(call.params, call.at))
         IN  [start |-> rng.start, end |-> rng.end]
    ELSE [ start |-> LocalMidnight(CivilDay(call.params.startDate)),
           end   |-> LocalMidnight(CivilDay(call.params.endDate) + 1) ]

\* The stored rows the last call has to count.
Counts(row) ==
    /\ row.userId = call.userId
    /\ CallWindow.start <= row.spentAt
    /\ row.spentAt < CallWindow.end
    /\ (IsSummaryCall /\ call.params.category # NoCategory
           => row.category = call.params.category)

Counted == [r \in {x \in DOMAIN expenses : Counts(x)} |-> expenses[r]]

RECURSIVE SumOfCounts(_)
SumOfCounts(list) ==
    IF list = << >> THEN 0 ELSE Head(list).count + SumOfCounts(Tail(list))

\* The totals of a byCategory list added up as JavaScript numbers ...
RECURSIVE FloatSumOfTotals(_, _)
FloatSumOfTotals(sum, list) ==
    IF list = << >> THEN sum
    ELSE FloatSumOfTotals(DoubleAdd(sum, Head(list).total), Tail(list))

\* ... and as real numbers.
RECURSIVE RealSumOfTotals(_)
RealSumOfTotals(list) ==
    IF list = << >> THEN DZero
    ELSE ExactAdd(Head(list).total, RealSumOfTotals(Tail(list)))

RECURSIVE CentsOf(_)
CentsOf(entries) ==
    IF entries = << >> THEN 0 ELSE Head(entries).amount + CentsOf(Tail(entries))

\* The decimal sum of the stored amounts of a bag of rows, in cents.
CentsOfBag(bag) == CentsOf(CHOOSE p \in Orders(bag) : TRUE)

EntrySet(list) == {list[i] : i \in DOMAIN list}

\* C1: the totals of byCategory add up to totalAmount, whether they are
\* added as JavaScript numbers in list order or as real numbers, and the
\* counts of byCategory add up to entryCount.
C1_BreakdownAddsUp ==
    (IsSummaryCall \/ IsByCategoryCall) =>
        /\ SumOfCounts(result.byCategory) = result.entryCount
        /\ \/ FloatSumOfTotals(DZero, result.byCategory) = result.totalAmount
           \/ RealSumOfTotals(result.byCategory) = result.totalAmount

\* C2: getExpensesSummary counts a stored row exactly when its userId is the
\* requested user, start <= spentAt < end and, with a category filter, its
\* category is the filter: the Summary is the reduction of exactly these
\* rows, so no other row contributes to totalAmount, entryCount or byCategory.
C2_CountsExactlyMatchingRows ==
    IsSummaryCall =>
        /\ result.entryCount = BagCardinality(Counted)
        /\ \E p \in Orders(Counted) :
              /\ result.totalAmount = Reduce(p).totalAmount
              /\ result.byCategory = Reduce(p).byCategory

\* Three rows in the table: one of the user at `start` (counted), one of the
\* user at `end` (not counted) and one of another user inside the window
\* (not counted).
C2_Witness ==
    /\ IsSummaryCall
    /\ result.entryCount = 1
    /\ \E r \in DOMAIN expenses :
          r.userId = call.userId /\ r.spentAt = CallWindow.start
    /\ \E r \in DOMAIN expenses :
          r.userId = call.userId /\ r.spentAt = CallWindow.end
    /\ \E r \in DOMAIN expenses :
          /\ r.userId # call.userId
          /\ CallWindow.start <= r.spentAt /\ r.spentAt < CallWindow.end

\* C7: two calls of getExpensesSummary with the same userId, period, date and
\* category, with no change of the table in between, return the same
\* periodLabel, start, end, totalAmount, entryCount and byCategory entries.
C7_Idempotent ==
    [][ ( /\ IsSummaryCall
          /\ call.params.date # NoDate
          /\ call' = call
          /\ expenses' = expenses )
        => ( /\ result'.periodLabel = result.periodLabel
             /\ result'.startDate = result.startDate
             /\ result'.endDate = result.endDate
             /\ result'.totalAmount = result.totalAmount
             /\ result'.entryCount = result.entryCount
             /\ EntrySet(result'.byCategory) = EntrySet(result.byCategory) )
      ]_vars

\* C8: when no stored row matches the user, the window and the optional
\* category filter, both aggregators return totalAmount 0, entryCount 0 and
\* an empty byCategory.
C8_EmptyMatch ==
    ((IsSummaryCall \/ IsByCategoryCall) /\ Counted = EmptyBag) =>
        /\ result.totalAmount = DZero
        /\ result.entryCount = 0
        /\ result.byCategory = << >>

\* The table is full, but none of its rows matches a call with a category
\* filter.
C8_Witness ==
    /\ IsSummaryCall
    /\ call.params.category # NoCategory
    /\ BagCardinality(expenses) = MaxExpenses
    /\ Counted = EmptyBag
    /\ result.totalAmount = DZero
    /\ result.byCategory = << >>

\* C9: totalAmount is the sum of the amounts of exactly the rows inside the
\* window, entryCount is their number, and every byCategory entry holds the
\* sum and the number of these rows of its category; rows outside the window
\* change none of them.
C9_SumOfRowsInWindow ==
    IsSummaryCall =>
        /\ result.totalAmount =
              (IF Counted = EmptyBag THEN DZero
               ELSE NumberOfCents(CentsOfBag(Counted)))
        /\ result.entryCount = BagCardinality(Counted)
        /\ \A e \in EntrySet(result.byCategory) :
              LET rows == [r \in {x \in DOMAIN Counted : x.category = e.category}
                              |-> Counted[r]]
              IN  /\ e.count = BagCardinality(rows)
                  /\ e.total = NumberOfCents(CentsOfBag(rows))

\* C10: the reduction does not depend on the order of the matched rows: every
\* order gives the totalAmount, the entryCount and the set of byCategory
\* entries of the Summary returned.
C10_OrderIndependent ==
    IsSummaryCall =>
        \A p \in Orders(Counted) :
            /\ Reduce(p).totalAmount = result.totalAmount
            /\ Len(p) = result.entryCount
            /\ EntrySet(Reduce(p).byCategory) = EntrySet(result.byCategory)

\* C11: byCategory holds one entry for every category that occurs among the
\* matched rows and none for any other: the categories of its entries are
\* pairwise distinct and every count is at least 1.  With a category filter
\* it has at most one entry, and that entry's category is the filter.
C11_OneEntryPerCategory ==
    (IsSummaryCall \/ IsByCategoryCall) =>
        LET list == result.byCategory
        IN  /\ {list[i].category : i \in DOMAIN list}
                  = {r.category : r \in DOMAIN Counted}
            /\ \A i, j \in DOMAIN list :
                  list[i].category = list[j].category => i = j
            /\ \A i \in DOMAIN list : list[i].count >= 1
            /\ (IsSummaryCall /\ call.params.category # NoCategory) =>
                  /\ Len(list) <= 1
                  /\ \A i \in DOMAIN list :
                        list[i].category = call.params.category

\* Three matched rows, two of one category and one of the other, give two
\* entries, one of them with count 2.
C11_Witness ==
    /\ IsSummaryCall \/ IsByCategoryCall
    /\ BagCardinality(Counted) = 3
    /\ Len(result.byCategory) = 2
    /\ \E i \in DOMAIN result.byCategory : result.byCategory[i].count = 2

\* C12: getExpensesByCategory aggregates exactly the user's rows with
\* spentAt in [00:00 of startDate, 00:00 of the day after endDate), both
\* taken at UTC-5: a row at any hour of endDate counts and a row at 00:00 of
\* the following day does not, also when endDate is the last day of a month
\* or of a year.  periodLabel is always "Custom Range".
C12_CustomRangeWindow ==
    IsByCategoryCall =>
        /\ result.periodLabel = "Custom Range"
        /\ result.entryCount = BagCardinality(Counted)
        /\ \E p \in Orders(Counted) :
              /\ result.totalAmount = Reduce(p).totalAmount
              /\ result.byCategory = Reduce(p).byCategory

\* endDate is 2024-12-31, the last day of a month and of a year.  The user
\* has a row in the last hour of December 31 (counted), a row at 00:00 of
\* January 1 (not counted) and a row in the hour before startDate begins
\* (not counted).
C12_Witness ==
    /\ IsByCategoryCall
    /\ call.params.startDate = Dec1
    /\ call.params.endDate = Dec31
    /\ result.entryCount = 1
    /\ \E r \in DOMAIN expenses : r.userId = call.userId /\ r.spentAt = T1 - 1
    /\ \E r \in DOMAIN expenses : r.userId = call.userId /\ r.spentAt = T1
    /\ \E r \in DOMAIN expenses : r.userId = call.userId /\ r.spentAt = T0 - 1

---------------------------------------------------------------------------
(* CLAIMS ABOUT THE AGGREGATORS INSIDE THE POST HANDLER                    *)

Aggregators == {"getExpensesSummary", "getExpensesByCategory"}

\* The handler is about to call an aggregator for the tool result it is at.
AtAggregatorCall ==
    /\ post.pc = "tools"
    /\ post.stage = "call"
    /\ post.steps[post.i][post.j].toolName \in Aggregators

\* The events of the log that belong to the tool result steps[i][j].
EventsAt(ev, i, j) ==
    {k \in DOMAIN post.log :
        post.log[k].ev = ev /\ post.log[k].i = i /\ post.log[k].j = j}

\* C13: getExpensesSummary and getExpensesByCategory write nothing: a call,
\* whether it returns a Summary or throws, leaves the users table and the
\* expenses table as they were.
C13_NoWrites ==
    [][ (AtAggregatorCall /\ post' # post)
            => (users' = users /\ expenses' = expenses) ]_vars

\* A call of getExpensesSummary has thrown while the user had a row in each
\* table; an earlier call in the same request had returned a Summary.
C13_Witness ==
    /\ call.op = "getExpensesSummary"
    /\ call.threw # "none"
    /\ \E u \in users : u.id = call.userId
    /\ \E r \in DOMAIN expenses : r.userId = call.userId
    /\ \E k \in DOMAIN post.log :
          post.log[k].ev = "findMany" /\ post.log[k].i < post.i

\* C14: when the read of an aggregator fails, the aggregator has issued
\* exactly one read and does not retry it, returns no Summary, and the same
\* error reaches the catch block of the POST handler: nothing is rendered,
\* uploaded or sent for that tool result.
C14_ReadFailurePropagates ==
    (call.op \in Aggregators /\ call.threw # "none") =>
        /\ call.reads = 1
        /\ Cardinality(EventsAt("findMany", post.i, post.j)) = 1
        /\ result = NoResult
        /\ post.pc \in {"catch", "done"}
        /\ post.error = call.threw
        /\ \A ev \in {"render", "uploadImage", "sendImage"} :
              EventsAt(ev, post.i, post.j) = {}

\* The read of getExpensesByCategory has failed with a statement timeout and
\* the handler is in its catch block with that error.
C14_Witness ==
    /\ call.op = "getExpensesByCategory"
    /\ call.threw = "statement timeout"
    /\ post.pc = "catch"
    /\ post.error = "statement timeout"
    /\ expenses # EmptyBag

---------------------------------------------------------------------------
(* CLAIMS ABOUT CALLS THAT OVERLAP                                         *)

\* The Summaries a call returns when it is the only one running: one for
\* every order in which findMany may return the rows, each reduced from an
\* accumulator of its own.
AloneSummaries(userId, params, at) ==
    LET rng == getDateRangeForPeriod(params.period, ReferenceDate(params, at))
        rows == [r \in {x \in DOMAIN expenses :
                          WhereSummary(x, userId, rng.start, rng.end,
                                       params.category)} |-> expenses[r]]
    IN  { LET acc == Accumulate([totalAmount |-> DZero, byCategory |-> << >>], p)
          IN  [ periodLabel |-> rng.label,
                startDate   |-> rng.start,
                endDate     |-> rng.end,
                totalAmount |-> acc.totalAmount,
                entryCount  |-> Len(p),
                byCategory  |-> acc.byCategory ] : p \in Orders(rows) }

\* C15: however the awaits of two or more getExpensesSummary calls overlap
\* over a table that does not change, every call returns a Summary it
\* returns when run alone: no call sees or changes the totals and the Map of
\* another.
C15_CallsIsolated ==
    \A c \in DOMAIN calls :
        calls[c].pc = "returned" =>
            calls[c].result \in
                AloneSummaries(calls[c].userId, calls[c].params, calls[c].at)

\* The second call started while the first was awaiting its rows and has
\* returned before it; both are for the same user, who has rows in the
\* window of the second call.
C15_Witness ==
    /\ Len(calls) >= 2
    /\ calls[1].pc = "awaiting"
    /\ calls[2].pc = "returned"
    /\ calls[1].userId = calls[2].userId
    /\ calls[2].result.entryCount >= 2

---------------------------------------------------------------------------
(* THE CLAIM ABOUT THE REPRESENTATION OF THE SUMS                          *)

\* C16: the sums carry no binary floating-point error: totalAmount and the
\* total of every byCategory entry are the decimal sum of the stored amounts
\* they cover, that is, the number a decimal(12,2) value of that sum
\* converts to.
C16_ExactDecimalSums ==
    (IsSummaryCall \/ IsByCategoryCall) =>
        /\ result.totalAmount =
              (IF Counted = EmptyBag THEN DZero
               ELSE NumberOfCents(CentsOfBag(Counted)))
        /\ \A e \in EntrySet(result.byCategory) :
              e.total =
                 NumberOfCents(CentsOfBag(
                    [r \in {x \in DOMAIN Counted : x.category = e.category}
                        |-> Counted[r]]))

---------------------------------------------------------------------------
(* THE CLAIM ABOUT THE ORDER OF THE BARS                                   *)

\* C17: whatever the order of byCategory in the Summary, the bars of the
\* image are in non-increasing order of total.  The aggregator does not
\* sort: its list is in the order in which the categories first occur among
\* the rows read.  The renderer sorts a copy: rendering leaves the Summary,
\* byCategory included, as it was.
C17_RendererSortsACopy ==
    [][ /\ (call'.op = "getExpensesSummary" /\ call.op = "none") =>
              \E p \in Orders([r \in {x \in DOMAIN expenses :
                                 WhereSummary(x, call'.userId,
                                     result'.startDate, result'.endDate,
                                     call'.params.category)}
                                 |-> expenses[r]]) :
                 \A k \in DOMAIN result'.byCategory :
                    /\ \E n \in DOMAIN p :
                          p[n].category = result'.byCategory[k].category
                    /\ \A m \in DOMAIN result'.byCategory :
                          k < m =>
                             \E n \in DOMAIN p :
                                /\ p[n].category = result'.byCategory[k].category
                                /\ \A n2 \in 1 .. n :
                                      p[n2].category
                                         # result'.byCategory[m].category
        /\ (image.template = "none" /\ image'.template = "expenses-summary") =>
              /\ result' = result
              /\ \A k \in 1 .. Len(image'.bars) - 1 :
                    ~DoubleLess(image'.bars[k].total, image'.bars[k + 1].total)
              /\ Len(image'.bars) =
                    (IF Len(result.byCategory) < 5
                     THEN Len(result.byCategory) ELSE 5)
              /\ \A k \in DOMAIN image'.bars :
                    \E n \in DOMAIN result.byCategory :
                       image'.bars[k] = result.byCategory[n]
              /\ \A k, m \in DOMAIN image'.bars :
                    image'.bars[k].category = image'.bars[m].category => k = m
      ]_vars

\* The Summary lists three categories with totals 10.00, 25.00 and 25.00,
\* in this order; the image shows the two of 25.00 first, in the order the
\* Summary has them, and the one of 10.00 last.  The Summary still begins
\* with the one of 10.00.
C17_Witness ==
    /\ call.op = "getExpensesSummary"
    /\ image.template = "expenses-summary"
    /\ Len(result.byCategory) = 3
    /\ result.byCategory[1].total = NumberOfCents(1000)
    /\ result.byCategory[2].total = NumberOfCents(2500)
    /\ result.byCategory[3].total = NumberOfCents(2500)
    /\ image.bars = << result.byCategory[2], result.byCategory[3],
                       result.byCategory[1] >>

---------------------------------------------------------------------------
(* THE CLAIM ABOUT WHAT THE WINDOW DEPENDS ON                              *)

\* The day, counted from 1970-01-01, of the calendar date a call refers to:
\* params.date, or the date in Colombia (UTC-5) at the instant of the call.
ReferenceDay(c) ==
    IF calls[c].params.date # NoDate THEN CivilDay(calls[c].params.date)
    ELSE (calls[c].at - 5) \div 24

\* C18: the window depends on the period kind and on the calendar date of
\* the reference date at UTC-5, and on nothing else: two calls with the same
\* period whose reference dates are the same calendar date get the same
\* start, end and label, whichever users they are made for, whatever the
\* timezone stored for these users, and whatever the instants of that date
\* at which they are made.
C18_WindowOfPeriodAndDate ==
    \A c1, c2 \in DOMAIN calls :
        ( /\ calls[c1].params.period = calls[c2].params.period
          /\ ReferenceDay(c1) = ReferenceDay(c2) )
        => /\ calls[c1].rng.start = calls[c2].rng.start
           /\ calls[c1].rng.end = calls[c2].rng.end
           /\ calls[c1].rng.label = calls[c2].rng.label

\* Two calls for the window of the day, made without params.date at two
\* instants of the same date in Colombia, for two users whose stored
\* timezones differ, on a server that does not run at UTC-5.
C18_Witness ==
    /\ Len(calls) >= 2
    /\ tz # -5
    /\ calls[1].params = [period |-> "day", date |-> NoDate,
                          category |-> NoCategory]
    /\ calls[2].params = calls[1].params
    /\ calls[1].at # calls[2].at
    /\ ReferenceDay(1) = ReferenceDay(2)
    /\ \E u1, u2 \in users :
          /\ u1.id = calls[1].userId
          /\ u2.id = calls[2].userId
          /\ u1.timezone # u2.timezone
    /\ calls[1].rng = calls[2].rng

---------------------------------------------------------------------------
(* CLAIMS ABOUT THE POST HANDLER (checked under SpecPost)                  *)

EventsOf(ev) == {k \in DOMAIN post.log : post.log[k].ev = ev}

\* The request went through the try block and a call in it has thrown.
ProcessingThrew == post.error \notin {"none", "request.json"}

\* C19: when a call inside the try block of POST throws, the handler makes
\* one attempt to send the fallback text: sendText is called once, or not at
\* all when the WhatsApp client cannot be built.  A failure of that attempt
\* is caught, logged and not rethrown, nothing else is sent, and the handler
\* returns HTTP 200.
C19_FallbackOnceAndOk ==
    /\ ProcessingThrew => post.pc \in {"catch", "done"}
    /\ (ProcessingThrew /\ post.pc = "catch") =>
          /\ EventsOf("sendFallback") = {}
          /\ EventsOf("sendError") = {}
    /\ (ProcessingThrew /\ post.pc = "done") =>
          /\ post.response = 200
          /\ Cardinality(EventsOf("sendFallback")) = (IF post.env THEN 1 ELSE 0)
          /\ Cardinality(EventsOf("sendError")) <= 1
          /\ EventsOf("sendFallback") \cup EventsOf("sendError") # {}
          /\ \A k \in EventsOf("sendFallback"), n \in DOMAIN post.log :
                n > k => post.log[n].ev = "sendError"
          /\ \A k \in EventsOf("sendError") : k = Len(post.log)

\* The read of an aggregator was refused by the database, the fallback text
\* was attempted and failed too, and the handler has returned 200.
C19_Witness ==
    /\ post.pc = "done"
    /\ post.error = "connection refused"
    /\ post.env
    /\ Cardinality(EventsOf("sendFallback")) = 1
    /\ EventsOf("sendError") # {}
    /\ post.response = 200

\* The places of the tool results in result.steps, and their order in the
\* loops.
Positions ==
    {pos \in (DOMAIN post.steps) \X (1 .. MaxToolResults) :
        pos[2] \in DOMAIN post.steps[pos[1]]}

Before(p, q) == p[1] < q[1] \/ (p[1] = q[1] /\ p[2] < q[2])

\* C20: in a POST that completes without an error, the tool results are
\* handled in the order of the steps and, within a step, of its tool
\* results.  For every logExpense tool result one row is inserted, before
\* its image is rendered, uploaded and sent; an aggregator's tool result is
\* read, rendered, uploaded and sent.  A text reply that is not blank is
\* sent once, after the images of all tool results; a blank one is not sent.
C20_OrderOfEffects ==
    (post.pc = "done" /\ post.error = "none" /\ post.userId # "none") =>
        /\ post.response = 200
        /\ \A pos \in Positions :
              LET first == IF post.steps[pos[1]][pos[2]].toolName = "logExpense"
                           THEN "insert" ELSE "findMany"
                  at(ev) == EventsAt(ev, pos[1], pos[2])
              IN  /\ \A ev \in {first, "render", "uploadImage", "sendImage"} :
                        Cardinality(at(ev)) = 1
                  /\ at(IF first = "insert" THEN "findMany" ELSE "insert") = {}
                  /\ \A a \in at(first), b \in at("render"),
                        c \in at("uploadImage"), d \in at("sendImage") :
                        a < b /\ b < c /\ c < d
        /\ \A k, n \in DOMAIN post.log :
              (post.log[k].i # 0 /\ post.log[n].i # 0 /\
               Before(<<post.log[k].i, post.log[k].j>>,
                      <<post.log[n].i, post.log[n].j>>)) => k < n
        /\ BagCardinality(expenses) =
              post.before + CountResults(post.steps, {"logExpense"})
        /\ Cardinality(EventsOf("sendText")) =
              (IF post.text \in {"", " "} THEN 0 ELSE 1)
        /\ \A k \in EventsOf("sendText") : k = Len(post.log)
        /\ Len(post.log) =
              4 * Cardinality(Positions) + Cardinality(EventsOf("sendText"))

\* A request with two steps, a logExpense and then a getExpensesSummary, and
\* a text reply has completed: insert, render, upload, image, read, render,
\* upload, image, text.
C20_Witness ==
    /\ post.pc = "done"
    /\ post.error = "none"
    /\ Len(post.steps) = 2
    /\ post.steps[1][1].toolName = "logExpense"
    /\ post.steps[2][1].toolName = "getExpensesSummary"
    /\ post.text = "Listo!"
    /\ Len(post.log) = 9
    /\ post.log[1].ev = "insert"
    /\ post.log[9].ev = "sendText"
    /\ post.response = 200

\* The message a webhook body is about, as the handler's contract has it:
\* the first item of a batch, or the legacy fields.
MessageOf(payload) ==
    IF payload.batch /\ payload.data # << >>
    THEN payload.data[1].message ELSE payload.message

HasPhoneNumberId(payload) ==
    IF payload.batch /\ payload.data # << >>
    THEN payload.data[1].phoneNumberId ELSE payload.phoneNumberId

\* C21: a webhook whose message is not inbound, whose type is none of text,
\* image and audio, that has no phone_number_id, or that yields neither a
\* text nor downloaded image data is answered with 200, and the step that
\* answers it creates no user, inserts no expense, calls no LLM and sends
\* no WhatsApp message.
C21_IgnoredWebhooks ==
    [][ ( /\ post.pc = "received"
          /\ \/ MessageOf(post.payload).direction # "inbound"
             \/ MessageOf(post.payload).type \notin {"text", "image", "audio"}
             \/ ~HasPhoneNumberId(post.payload)
             \/ ~post'.userText /\ ~post'.imageData )
        => ( /\ post'.pc = "done"
             /\ post'.response = 200
             /\ users' = users
             /\ expenses' = expenses
             /\ post'.userId = "none"
             /\ post'.steps = << >>
             /\ post'.log = << >> ) ]_vars

\* An inbound image whose download gave nothing and that has no caption was
\* answered with 200.
C21_Witness ==
    /\ post.pc = "done"
    /\ post.response = 200
    /\ post.payload.message.direction = "inbound"
    /\ post.payload.message.type = "image"
    /\ post.payload.message.mediaUrl
    /\ post.payload.phoneNumberId
    /\ post.log = << >>

\* The image of steps[i][j] could not be rendered, uploaded or sent.
ImageFailedAt(toolName) ==
    /\ post.pc \in {"catch", "done"}
    /\ post.error \in {"render", "uploadImage", "sendImage"}
    /\ post.steps[post.i][post.j].toolName = toolName

\* C22: when the image of a logExpense tool result cannot be rendered,
\* uploaded or sent, the row that saveExpense inserted for it stays in the
\* table, the tool results after it and the text reply are skipped, and the
\* handler ends by sending the fallback text.
C22_NoRollback ==
    ImageFailedAt("logExpense") =>
        /\ Cardinality(EventsAt("insert", post.i, post.j)) = 1
        /\ BagIn(saveExpense(post.userId, post.steps[post.i][post.j].output),
                 expenses)
        /\ BagCardinality(expenses)
              = post.before + Cardinality(EventsOf("insert"))
        /\ \A k \in DOMAIN post.log :
              post.log[k].ev \in {"insert", "findMany", "render", "uploadImage",
                                  "sendImage"}
                  => ~Before(<<post.i, post.j>>, <<post.log[k].i, post.log[k].j>>)
        /\ EventsOf("sendText") = {}
        /\ post.pc = "done" =>
              /\ Cardinality(EventsOf("sendFallback")) = 1
              /\ post.response = 200

\* The image of the first of two logExpense tool results could not be
\* uploaded: its row is the one new row of the table, the user got the
\* fallback text, and the text reply "Listo!" was not sent.
C22_Witness ==
    /\ ImageFailedAt("logExpense")
    /\ post.pc = "done"
    /\ post.error = "uploadImage"
    /\ <<post.i, post.j>> = <<1, 1>>
    /\ CountResults(post.steps, {"logExpense"}) = 2
    /\ post.text = "Listo!"
    /\ BagCardinality(expenses) = post.before + 1
    /\ post.log[Len(post.log)].ev = "sendFallback"

\* C23: however POST requests of one phone number interleave, the users
\* table never holds two rows with that number.  getOrCreateUser looks up
\* and inserts in two steps: a request that found no row, and whose insert
\* comes after another request has inserted the number, fails on its insert
\* and goes to the catch block without a user.
C23_OneRowPerPhone ==
    [][ /\ \A u1 \in users', u2 \in users' :
              u1.phoneNumber = u2.phoneNumber => u1 = u2
        /\ \A r \in DOMAIN requests :
              ( /\ requests[r].pc = "insert"
                /\ requests'[r].pc # "insert"
                /\ \E u \in users : u.phoneNumber = requests[r].sender )
              => ( /\ requests'[r].pc = "catch"
                   /\ requests'[r].userId = "none"
                   /\ users' = users ) ]_vars

\* Two requests of one new number: the first got the new row, the second
\* had looked up before that insert and ended in the catch block.
C23_Witness ==
    /\ Len(requests) = 2
    /\ requests[1].sender = requests[2].sender
    /\ requests[1].pc = "done" /\ requests[1].userId # "none"
    /\ requests[2].pc = "done" /\ requests[2].userId = "none"
    /\ requests[2].error = "unique constraint"
    /\ Cardinality(users) = 1

\* C24: for every period kind and every reference date, the calendar day of
\* the reference date in Colombia lies inside the window: start is at or
\* before 00:00 of that day and end is at or after 00:00 of the next day.
C24_ReferenceDayInside ==
    range # NoRange =>
        /\ range.start <= LocalMidnight(RefDay)
        /\ LocalMidnight(RefDay + 1) <= range.end

\* The year window asked for December 31: the end of that day is the end of
\* the window.
C24_Witness ==
    /\ range # NoRange
    /\ range.period = "year"
    /\ range.date = [y |-> 2024, m |-> 12, d |-> 31]
    /\ range.start < LocalMidnight(RefDay)
    /\ range.end = LocalMidnight(RefDay + 1)

\* C25: getExpensesByCategory returns as startDate and endDate the UTC
\* midnights of the caller's dates and not the bounds of its query: the
\* returned startDate is 5 hours before the lower bound and the returned
\* endDate 29 hours before the upper bound.  getExpensesSummary returns the
\* very bounds it queried with.
C25_ReturnedBounds ==
    /\ (IsByCategoryCall /\ result # NoResult) =>
          /\ result.startDate = CivilDay(call.params.startDate) * 24
          /\ result.endDate = CivilDay(call.params.endDate) * 24
          /\ result.startDate = call.where.start - 5
          /\ result.endDate = call.where.end - 29
    /\ (IsSummaryCall /\ result # NoResult) =>
          /\ result.startDate = call.where.start
          /\ result.endDate = call.where.end

\* The range from November 30 to December 1 was asked for: a query over 48
\* hours is reported as a range of 24 hours.
C25_Witness ==
    /\ IsByCategoryCall
    /\ result # NoResult
    /\ call.params.startDate = Nov30
    /\ call.params.endDate = Dec1
    /\ call.where.end - call.where.start = 48
    /\ result.endDate - result.startDate = 24

\* The labels the claim lists as keys of the map, with the words each
\* locale has for them.
C26_Words ==
    [ en |-> [ l \in {"Today", "This Week", "This Month", "This Year",
                      "Custom Range"} |-> l ],
      es |-> ( "Today" :> "Hoy" @@ "This Week" :> "Esta Semana"
               @@ "This Month" :> "Este Mes" @@ "This Year" :> "Este Año"
               @@ "Custom Range" :> "Rango Personalizado" ) ]

\* C26: every periodLabel that getDateRangeForPeriod and
\* getExpensesByCategory produce is one of "Today", "This Week", "This
\* Month", "This Year" and "Custom Range", the keys of the map of
\* translatePeriodLabel, so that in each supported locale it is translated;
\* a label that is not a key is returned unchanged.
C26_LabelsTranslated ==
    /\ (call.op \in {"getExpensesSummary", "getExpensesByCategory"}
            /\ result # NoResult) =>
          /\ result.periodLabel \in DOMAIN C26_Words.en
          /\ image # NoImage =>
                \E locale \in SupportedLocales :
                    image.periodLabel = C26_Words[locale][result.periodLabel]
    /\ call.op = "translatePeriodLabel" =>
          result.periodLabel =
              IF call.periodLabel \in DOMAIN C26_Words[call.locale]
              THEN C26_Words[call.locale][call.periodLabel]
              ELSE call.periodLabel

\* The text messages with content of a response, oldest first.
RECURSIVE C27_Chronological(_)
C27_Chronological(data) ==
    IF data = << >> THEN << >>
    ELSE LET msg == data[1]
             older == C27_Chronological(Tail(data))
             content == IF msg.content \notin {undefined, ""}
                        THEN msg.content ELSE msg.body
         IN  IF msg.type = "text" /\ content \notin {undefined, ""}
             THEN Append(older, [ role |-> IF msg.from THEN "user"
                                           ELSE "assistant",
                                  content |-> content ])
             ELSE older

IsHistoryCall == call.op = "getConversationMessages" /\ call.threw = "none"

C28_FirstItemOnly ==
    [][ /\ ( /\ post.pc = "received"
             /\ post.payload.batch
             /\ Len(post.payload.data) > 1 ) =>
              LET first == post.payload.data[1]
              IN  IF \/ first.message.direction # "inbound"
                     \/ first.message.type \notin {"text", "image", "audio"}
                     \/ ~first.phoneNumberId
                  THEN /\ post'.pc = "done" /\ post'.response = 200
                       /\ post'.userId = "none" /\ post'.steps = << >>
                       /\ post'.log = << >>
                       /\ users' = users /\ expenses' = expenses
                  ELSE post'.pc # "done" =>
                          post'.sender = Digits(first.message.from)
        /\ post.rest # << >> =>
              /\ \A u \in users' \ users : u.phoneNumber = post.sender
              /\ post.userId # "none" =>
                    \E u \in users : /\ u.id = post.userId
                                     /\ u.phoneNumber = post.sender
              /\ \A row \in DOMAIN expenses' :
                    (row \notin DOMAIN expenses \/ expenses'[row] > expenses[row])
                        => row.userId = post.userId
              /\ post'.pc # "received" =>
                    LET n == Len(post'.log)
                    IN  Cardinality({k \in 1 .. n :
                            post'.log[k].ev \in {"sendText", "sendFallback"}})
                            <= 1 ]_vars

\* A batch of two texts from two numbers was handled: the first sender has
\* a row in users and one in expenses and got the text reply; the second
\* sender has no row.
C28_Witness ==
    /\ post.pc = "done"
    /\ post.sender = <<"5", "7", "3">>
    /\ post.rest = << <<"5", "1", "9">> >>
    /\ users = {[ id |-> post.userId, phoneNumber |-> post.sender,
                  timezone |-> "America/Bogota" ]}
    /\ BagCardinality(expenses) = 1
    /\ Cardinality(EventsOf("insert")) = 1
    /\ Cardinality(EventsOf("sendText")) = 1

ReturnedBy(op) ==
    { created.returned[k].value : k \in
        {n \in DOMAIN created.returned :
            /\ created.returned[n].op = op
            /\ created.returned[n].value # "threw"} }

\* C30: getDb and Logger.getInstance are lazy singletons: a process
\* constructs at most one database instance and at most one Logger, and
\* every call that returns, returns that one instance.
C30_Singletons ==
    /\ Len(created.db) <= 1
    /\ Len(created.logger) <= 1
    /\ ReturnedBy("getDb") \subseteq {created.db[k] : k \in DOMAIN created.db}
    /\ ReturnedBy("getInstance")
          \subseteq {created.logger[k] : k \in DOMAIN created.logger}
    /\ dbInstance # null => created.db = <<dbInstance>>
    /\ instance # null => created.logger = <<instance>>

\* getDb has thrown once without DATABASE_URL and returned twice since, and
\* Logger.getInstance has returned twice: one instance of each was built.
C30_Witness ==
    /\ Len(created.returned) = 5
    /\ created.returned[1] = [op |-> "getDb", value |-> "threw"]
    /\ Cardinality({k \in DOMAIN created.returned :
                        created.returned[k].op = "getInstance"}) = 2
    /\ Cardinality(ReturnedBy("getDb")) = 1
    /\ Len(created.db) = 1
    /\ Len(created.logger) = 1

\* The rows of food_entries that a call of getDailySummary is about: those
\* of the user, eaten on the local day of the date.
C29_Eaten ==
    [ r \in { x \in DOMAIN foodEntries :
                /\ x.userId = call.userId
                /\ LocalMidnight(CivilDay(call.date)) <= x.eatenAt
                /\ x.eatenAt < LocalMidnight(CivilDay(call.date) + 1) }
        |-> foodEntries[r] ]

RECURSIVE C29_Sum(_, _)
C29_Sum(rows, field) ==
    IF rows = << >> THEN 0
    ELSE Head(rows)[field] + C29_Sum(Tail(rows), field)

C29_Total(field) ==
    LET hundredths == C29_Sum(CHOOSE p \in Orders(C29_Eaten) : TRUE, field)
    IN  IF hundredths = 0 THEN DZero ELSE NumberOfCents(hundredths)

\* C29: getDailySummary(userId, date) returns as entryCount the number of
\* the user's food entries eaten from 00:00 of the date to 00:00 of the next
\* day in Colombia (UTC-5), and as calories, protein, carbs and fat the sums
\* over exactly those entries, 0 when there are none.
C29_DailySummary ==
    call.op = "getDailySummary" =>
        /\ result.entryCount = BagCardinality(C29_Eaten)
        /\ result.calories = C29_Total("calories")
        /\ result.protein = C29_Total("protein")
        /\ result.carbs = C29_Total("carbs")
        /\ result.fat = C29_Total("fat")

====
